---- MODULE Spec2Model ----
(***************************************************************************)
(* A model of the rhizome DHT node: the Kademlia routing table, the wire   *)
(* protocol with its outstanding-request table and rate limiter, and the   *)
(* DHT engine (find_node, find_value, store) running over an unreliable    *)
(* datagram network.                                                       *)
(*                                                                         *)
(* Node IDs are IdBits-bit naturals (the code uses 160 bits), a node's     *)
(* address is its index in Nodes, a key is a sequence of bits.  A client   *)
(* operation of one node runs at a time (the test drivers await each       *)
(* call); its parallel requests, the peers' handlers, message loss,        *)
(* timeouts and a node's stop interleave.                                  *)
(***************************************************************************)
EXTENDS Integers, Sequences, FiniteSets, TLC

\* ------------------------------------------------------------------ bounds
NumNodes == 5
IdBits == 4
MaxOps == 2
MaxPings == 25
MaxTime == 60

\* ------------------------------------------------------- program constants
alpha == 3
K == 20
max_requests == 100
window_seconds == 60
per_node_limit == 20
stale_timeout == 3600
default_ttl == 86400

Nodes == 1..NumNodes
StubId == 0
NoValue == "none"

\* The node IDs of the five nodes (generate_node_id gives each node a
\* distinct, nonzero ID).
NodeIdOf(n) == CASE n = 1 -> 1 [] n = 2 -> 6 [] n = 3 -> 11 [] n = 4 -> 12
                 [] n = 5 -> 14 [] OTHER -> 15

\* ------------------------------------------------------------ pure helpers
RECURSIVE XorBits(_, _, _)
XorBits(a, b, bits) ==
    IF bits = 0 THEN 0
    ELSE (((a % 2) + (b % 2)) % 2) + (2 * XorBits(a \div 2, b \div 2, bits - 1))

compute_distance(a, b) == XorBits(a, b, IdBits)

RECURSIVE Pow2(_)
Pow2(n) == IF n = 0 THEN 1 ELSE 2 * Pow2(n - 1)

\* A key is a sequence of bits; the lookup target is its first IdBits bits,
\* padded with zeros on the right when the key is shorter.
RECURSIVE BitsToNat(_, _)
BitsToNat(bits, width) ==
    IF width = 0 THEN 0
    ELSE ((IF Len(bits) >= 1 THEN bits[1] ELSE 0) * Pow2(width - 1))
         + BitsToNat(IF Len(bits) >= 1 THEN Tail(bits) ELSE bits, width - 1)

KeyToTarget(key) == BitsToNat(key, IdBits)

Peer(id, addr, t) == [node_id |-> id, address |-> addr, last_seen |-> t, failed_pings |-> 0]

is_stale(p, t) == (t - p.last_seen) > stale_timeout

\* Node.update_seen and Node.record_failed_ping
update_seen(p, t) == [p EXCEPT !.last_seen = t, !.failed_pings = 0]
record_failed_ping(p) == [p EXCEPT !.failed_pings = @ + 1]

PeerIds(s) == {s[i].node_id : i \in 1..Len(s)}

Min(a, b) == IF a < b THEN a ELSE b

Take(s, n) == SubSeq(s, 1, IF Len(s) < n THEN Len(s) ELSE n)

RECURSIVE RemoveFirst(_, _)
RemoveFirst(s, id) ==
    IF s = <<>> THEN <<>>
    ELSE IF Head(s).node_id = id THEN Tail(s)
    ELSE <<Head(s)>> \o RemoveFirst(Tail(s), id)

RECURSIVE InsertSorted(_, _, _)
InsertSorted(p, s, t) ==
    IF s = <<>> THEN <<p>>
    ELSE IF compute_distance(t, p.node_id) < compute_distance(t, Head(s).node_id)
         THEN <<p>> \o s
         ELSE <<Head(s)>> \o InsertSorted(p, Tail(s), t)

\* sorted(nodes, key = distance to target): stable.
RECURSIVE SortByDistance(_, _)
SortByDistance(s, t) ==
    IF s = <<>> THEN <<>>
    ELSE InsertSorted(s[Len(s)], SortByDistance(SubSeq(s, 1, Len(s) - 1), t), t)

\* ----------------------------------------------------------- routing table
BucketCount == IdBits

RECURSIVE FirstBit(_, _)
FirstBit(d, i) ==
    IF i >= IdBits THEN BucketCount - 1
    ELSE IF ((d \div Pow2((IdBits - 1) - i)) % 2) = 1 THEN i
    ELSE FirstBit(d, i + 1)

get_bucket_index(self, target) == FirstBit(compute_distance(self, target), 0)

EmptyTable == [i \in 0..(BucketCount - 1) |-> <<>>]

\* A faulty variant: a bucket that takes a new peer whatever it holds.
KBucket_add_node_unbounded(nodes, p, k) ==
    IF p.node_id \in PeerIds(nodes)
    THEN [nodes |-> Append(RemoveFirst(nodes, p.node_id), p), ok |-> TRUE]
    ELSE [nodes |-> Append(nodes, p), ok |-> TRUE]

\* A faulty variant: a bucket that does not look for the peer before it
\* appends it.
KBucket_add_node_no_lookup(nodes, p, k) ==
    IF Len(nodes) < k
    THEN [nodes |-> Append(nodes, p), ok |-> TRUE]
    ELSE [nodes |-> nodes, ok |-> FALSE]

\* KBucket.add_node of a bucket of capacity k.
KBucket_add_node(nodes, p, k) ==
    IF p.node_id \in PeerIds(nodes)
    THEN [nodes |-> Append(RemoveFirst(nodes, p.node_id), p), ok |-> TRUE]
    ELSE IF Len(nodes) < k
    THEN [nodes |-> Append(nodes, p), ok |-> TRUE]
    ELSE [nodes |-> nodes, ok |-> FALSE]

StaleNodes(nodes, t) == SelectSeq(nodes, LAMBDA q : is_stale(q, t))

\* The stale peer RoutingTable.add_node evicts from a full bucket:
\* stale_nodes[0].
Evicted(stale) == Head(stale)

\* A faulty variant: the table does not compare the peer with its own id.
add_node_any(self, k, table, p, t) ==
    LET idx == get_bucket_index(self, p.node_id)
        b == table[idx]
    IN IF Len(b) >= k
       THEN IF StaleNodes(b, t) # <<>>
            THEN LET r == KBucket_add_node(
                              RemoveFirst(b, Evicted(StaleNodes(b, t)).node_id), p, k)
                 IN [table |-> [table EXCEPT ![idx] = r.nodes], ok |-> r.ok]
            ELSE [table |-> table, ok |-> FALSE]
       ELSE LET r == KBucket_add_node(b, p, k)
            IN [table |-> [table EXCEPT ![idx] = r.nodes], ok |-> r.ok]

\* RoutingTable.add_node of a table of bucket capacity k: the new table and
\* the returned flag.
add_node(self, k, table, p, t) ==
    IF p.node_id = self THEN [table |-> table, ok |-> FALSE]
    ELSE LET idx == get_bucket_index(self, p.node_id)
             b == table[idx]
         IN IF Len(b) >= k
            THEN IF StaleNodes(b, t) # <<>>
                 THEN LET r == KBucket_add_node(
                                   RemoveFirst(b, Evicted(StaleNodes(b, t)).node_id), p, k)
                      IN [table |-> [table EXCEPT ![idx] = r.nodes], ok |-> r.ok]
                 ELSE [table |-> table, ok |-> FALSE]
            ELSE LET r == KBucket_add_node(b, p, k)
                 IN [table |-> [table EXCEPT ![idx] = r.nodes], ok |-> r.ok]

\* RoutingTable.remove_node
remove_node(self, table, id) ==
    [table EXCEPT ![get_bucket_index(self, id)] = RemoveFirst(@, id)]

RECURSIVE CollectBuckets(_, _, _, _, _)
CollectBuckets(table, start, offset, count, acc) ==
    IF offset >= BucketCount THEN acc
    ELSE LET got == acc \o table[(start + offset) % BucketCount]
         IN IF Len(got) >= count THEN got
            ELSE CollectBuckets(table, start, offset + 1, count, got)

find_closest_nodes(self, table, target, count) ==
    Take(SortByDistance(CollectBuckets(table, get_bucket_index(self, target), 0, count, <<>>),
                        target), count)

RECURSIVE Flatten(_, _)
Flatten(table, i) ==
    IF i >= BucketCount THEN <<>> ELSE table[i] \o Flatten(table, i + 1)

get_all_nodes(table) == Flatten(table, 0)

\* ------------------------------------------------------------ rate limiter
NoId == -1
history_maxlen == 200
node_history_maxlen == 40

EmptyLimiter == [history |-> <<>>, nodes |-> <<>>]

\* deque(maxlen).append
DequeAppend(s, x, maxlen) ==
    IF Len(s) >= maxlen THEN Append(Tail(s), x) ELSE Append(s, x)

RECURSIVE PopOld(_, _)
PopOld(s, t) ==
    IF s # <<>> /\ (t - Head(s)) > window_seconds THEN PopOld(Tail(s), t) ELSE s

\* The per-sender histories are a sequence of [id, times] pairs (a dict in
\* insertion order).
RECURSIVE CleanNodes(_, _)
CleanNodes(ns, t) ==
    IF ns = <<>> THEN <<>>
    ELSE LET h == PopOld(Head(ns).times, t)
         IN (IF h = <<>> THEN <<>> ELSE <<[id |-> Head(ns).id, times |-> h]>>)
            \o CleanNodes(Tail(ns), t)

cleanup_old_requests(lim, t) ==
    [history |-> PopOld(lim.history, t), nodes |-> CleanNodes(lim.nodes, t)]

CountRecent(s, t) == Cardinality({i \in 1..Len(s) : (t - s[i]) < window_seconds})

NodeTimes(ns, id) ==
    IF \E i \in 1..Len(ns) : ns[i].id = id
    THEN ns[CHOOSE i \in 1..Len(ns) : ns[i].id = id].times
    ELSE <<>>

NodeAppend(ns, id, t) ==
    IF \E i \in 1..Len(ns) : ns[i].id = id
    THEN [i \in 1..Len(ns) |->
            IF ns[i].id = id
            THEN [id |-> id, times |-> DequeAppend(ns[i].times, t, node_history_maxlen)]
            ELSE ns[i]]
    ELSE Append(ns, [id |-> id, times |-> <<t>>])

\* A faulty variant: the global comparison is off by one.
check_rate_limit_off_by_one(lim, node_id, t) ==
    LET c == cleanup_old_requests(lim, t)
    IN IF CountRecent(c.history, t) > max_requests
       THEN [lim |-> c, ok |-> FALSE, why |-> "global"]
       ELSE IF node_id # NoId /\ CountRecent(NodeTimes(c.nodes, node_id), t) >= per_node_limit
       THEN [lim |-> c, ok |-> FALSE, why |-> "node"]
       ELSE [why |-> "ok", lim |-> [history |-> DequeAppend(c.history, t, history_maxlen),
                      nodes |-> IF node_id # NoId THEN NodeAppend(c.nodes, node_id, t)
                                ELSE c.nodes],
             ok |-> TRUE]

\* A faulty variant: only the global limit is checked.
check_rate_limit_global_only(lim, node_id, t) ==
    LET c == cleanup_old_requests(lim, t)
    IN IF CountRecent(c.history, t) >= max_requests
       THEN [lim |-> c, ok |-> FALSE, why |-> "global"]
       ELSE [why |-> "ok", lim |-> [history |-> DequeAppend(c.history, t, history_maxlen),
                      nodes |-> IF node_id # NoId THEN NodeAppend(c.nodes, node_id, t)
                                ELSE c.nodes],
             ok |-> TRUE]

\* RateLimiter.check_rate_limit: the limiter afterwards and whether the
\* message is allowed (FALSE stands for the raised RateLimitError).
check_rate_limit(lim, node_id, t) ==
    LET c == cleanup_old_requests(lim, t)
    IN IF CountRecent(c.history, t) >= max_requests
       THEN [lim |-> c, ok |-> FALSE, why |-> "global"]
       ELSE IF node_id # NoId /\ CountRecent(NodeTimes(c.nodes, node_id), t) >= per_node_limit
       THEN [lim |-> c, ok |-> FALSE, why |-> "node"]
       ELSE [why |-> "ok", lim |-> [history |-> DequeAppend(c.history, t, history_maxlen),
                      nodes |-> IF node_id # NoId THEN NodeAppend(c.nodes, node_id, t)
                                ELSE c.nodes],
             ok |-> TRUE]

\* ------------------------------------------------------------ local store
\* The store facade: get, put with a TTL, and a put that fails when the
\* store is over its size cap.
ChainKey == <<1, 0, 1, 1, 0, 1>>
KeySet == {ChainKey, <<0, 1>>}
ValueSet == {"v1", "v2"}
TtlSet == {3600}

ShortKey == <<0, 1>>

NoEntry == [value |-> NoValue, expires_at |-> 0]
EmptyStorage == [k \in KeySet |-> NoEntry]

StoragePut(st, key, value, ttl, t) ==
    [st EXCEPT ![key] = [value |-> value, expires_at |-> t + ttl]]

StorageGet(st, key, t) ==
    IF st[key].value # NoValue /\ t < st[key].expires_at THEN st[key].value ELSE NoValue

\* ------------------------------------------------------------------ frames
\* A payload is a mapping with the fields its message type uses; "mapping"
\* is FALSE for a payload that is not a mapping at all.
EmptyPayload ==
    [node_id |-> NoId, target_id |-> NoId, key |-> <<>>, value |-> NoValue, ttl |-> 0,
     nodes |-> <<>>, found |-> FALSE, success |-> FALSE, error |-> "", mapping |-> TRUE]

\* _pack_message: the sender's node ID goes into every frame.
pack_message(self, type, id, payload, src, dst) ==
    [type |-> type, id |-> id, node_id |-> self, payload |-> payload,
     src |-> src, dst |-> dst]

\* The wire form of a list of peers (id, address, port) and its parse on
\* receipt, which stamps last_seen with the receiver's clock.
NodesData(s) == [i \in 1..Len(s) |-> [node_id |-> s[i].node_id, address |-> s[i].address]]
ParseNodes(d, t) == [i \in 1..Len(d) |-> Peer(d[i].node_id, d[i].address, t)]

\* ------------------------------------------------------------------- state
VARIABLES
    now,              \* the clock, in seconds
    phase,            \* per node: "new", "running" (transport up), "stopped"
    attached,         \* per node: the DHT engine has a network protocol
    bootstrap_nodes,  \* per node: the configured bootstrap endpoints
    buckets,          \* per node: the routing table, bucket index -> peers
    storage,          \* per node: the local store
    storage_full,     \* per node: the store is over its cap, put raises
    pending,          \* per node: pending_requests, the ids awaiting a reply
    limiter,          \* per node: the rate limiter's histories
    network,          \* datagrams in flight
    next_id,          \* the next fresh message id
    op,               \* the client operation in progress
    ops_done,         \* client operations begun so far
    hist,             \* the completed client operations, in order
    rx,               \* per receiver and sender: frames seen, accepted, dropped
    metrics,          \* node 1: the metrics collector's entries, in insertion order
    issued,           \* node 1: the store calls the replicator made, in order
    loops             \* node 1: the background loops

vars == <<now, phase, attached, bootstrap_nodes, buckets, storage, storage_full,
          pending, limiter, network, next_id, op, ops_done, hist, rx,
          metrics, issued, loops>>

\* ------------------------------------------------- requests awaiting replies
NoResult == [kind |-> "pending", flag |-> FALSE, nodes |-> <<>>, value |-> NoValue]
BoolResult(b) == [NoResult EXCEPT !.kind = "bool", !.flag = b]
ListResult(l) == [NoResult EXCEPT !.kind = "list", !.nodes = l]
BytesResult(v) == [NoResult EXCEPT !.kind = "bytes", !.value = v]
NoneResult == [NoResult EXCEPT !.kind = "none"]
ExcResult == [NoResult EXCEPT !.kind = "exc"]

\* One call of NetworkProtocol.ping / find_node / find_value / store: its
\* message id, its future (fdone, ftype, fpayload) and what it returned.
NewTask(type, peer) ==
    [id |-> 0, type |-> type, peer |-> peer, st |-> "new", fdone |-> FALSE,
     ftype |-> "none", fpayload |-> EmptyPayload, result |-> NoResult]

IdleOp ==
    [kind |-> "none", node |-> 0, no |-> 0, pc |-> "idle", key |-> <<>>, value |-> NoValue,
     ttl |-> 0, target |-> NoId, closest |-> <<>>, seen |-> <<>>, queried |-> {},
     candidates |-> <<>>, tasks |-> <<>>, idx |-> 0, connected |-> FALSE,
     outcome |-> "none", result |-> NoResult, peer |-> Peer(StubId, 0, 0),
     sent |-> 0, dispatched |-> <<>>, rounds |-> 0, local |-> FALSE, values |-> 0,
     errors |-> 0]

\* A faulty variant: STORE and FIND_VALUE name the short key whatever the
\* operation's key is.
RequestPayloadShortKey(o, type) ==
    CASE type = "PING" -> [EmptyPayload EXCEPT !.node_id = NodeIdOf(o.node)]
      [] type = "FIND_NODE" -> [EmptyPayload EXCEPT !.target_id = o.target]
      [] type = "FIND_VALUE" -> [EmptyPayload EXCEPT !.key = ShortKey]
      [] type = "STORE" -> [EmptyPayload EXCEPT !.key = ShortKey, !.value = o.value, !.ttl = o.ttl]

RequestPayload(o, type) ==
    CASE type = "PING" -> [EmptyPayload EXCEPT !.node_id = NodeIdOf(o.node)]
      [] type = "FIND_NODE" -> [EmptyPayload EXCEPT !.target_id = o.target]
      [] type = "FIND_VALUE" -> [EmptyPayload EXCEPT !.key = o.key]
      [] type = "STORE" -> [EmptyPayload EXCEPT !.key = o.key, !.value = o.value, !.ttl = o.ttl]

\* What the call returns once its future holds (msg_type, payload); reading
\* a payload that is not a mapping raises.
ReplyResult(type, ftype, fpayload, t) ==
    CASE type = "PING" -> BoolResult(ftype = "PONG")
      [] type = "FIND_NODE" ->
            IF ftype # "FIND_NODE_RESP" THEN ListResult(<<>>)
            ELSE IF ~fpayload.mapping THEN ExcResult
            ELSE ListResult(ParseNodes(fpayload.nodes, t))
      [] type = "FIND_VALUE" ->
            IF ftype # "FIND_VALUE_RESP" THEN NoneResult
            ELSE IF ~fpayload.mapping THEN ExcResult
            ELSE IF fpayload.found /\ fpayload.value # NoValue
            THEN BytesResult(fpayload.value)
            ELSE NoneResult
      [] type = "STORE" ->
            IF ftype # "STORE_RESP" THEN BoolResult(FALSE)
            ELSE IF ~fpayload.mapping THEN ExcResult
            ELSE BoolResult(fpayload.success)

\* What the call returns when asyncio.wait_for times out.
TimeoutResult(type) ==
    CASE type = "PING" -> BoolResult(FALSE)
      [] type = "FIND_NODE" -> ListResult(<<>>)
      [] type = "FIND_VALUE" -> NoneResult
      [] type = "STORE" -> BoolResult(FALSE)

\* A faulty variant: the call has no "finally" clause.
PopPendingKeep(pend, id) == pend

\* The ids still in the table after the call's "finally" clause.
PopPending(pend, id) == pend \ {id}

\* A gather starts its calls in order, and each runs up to its first
\* suspension (the wait for its future) before anything else of the event
\* loop runs.
Launching ==
    /\ op.kind # "none"
    /\ \E i \in 1..Len(op.tasks) : op.tasks[i].st \in {"new", "registered"}

\* msg_id = _generate_msg_id(); pending_requests[msg_id] = future
TaskRegister(i) ==
    /\ op.kind # "none"
    /\ i \in 1..Len(op.tasks)
    /\ op.tasks[i].st = "new"
    /\ \A j \in 1..(i - 1) : op.tasks[j].st \notin {"new", "registered"}
    /\ op' = [op EXCEPT !.tasks[i].id = next_id, !.tasks[i].st = "registered"]
    /\ pending' = [pending EXCEPT ![op.node] = @ \cup {next_id}]
    /\ next_id' = next_id + 1
    /\ UNCHANGED <<now, phase, attached, bootstrap_nodes, metrics, issued, loops, buckets, storage, storage_full,
                   limiter, network, ops_done, hist, rx>>

\* transport.send: raises NetworkError when the transport is not running
\* (the call then leaves through "finally"), else the datagram goes out and
\* the call awaits its future.
TaskSend(i) ==
    /\ op.kind # "none"
    /\ i \in 1..Len(op.tasks)
    /\ op.tasks[i].st = "registered"
    /\ IF phase[op.node] # "running"
       THEN /\ op' = [op EXCEPT !.tasks[i].st = "returned", !.tasks[i].result = ExcResult,
                               !.errors = @ + 1]
            /\ pending' = [pending EXCEPT ![op.node] = PopPending(@, op.tasks[i].id)]
            /\ UNCHANGED network
       ELSE /\ op' = [op EXCEPT !.tasks[i].st = "waiting", !.sent = @ + 1]
            /\ network' = network \cup
                   {pack_message(NodeIdOf(op.node), op.tasks[i].type, op.tasks[i].id,
                                 RequestPayload(op, op.tasks[i].type),
                                 op.node, op.tasks[i].peer.address)}
            /\ UNCHANGED pending
    /\ UNCHANGED <<now, phase, attached, bootstrap_nodes, metrics, issued, loops, buckets, storage, storage_full,
                   limiter, next_id, ops_done, hist, rx>>

\* The future is done: the call computes its result and leaves through
\* "finally".
TaskReturn(i) ==
    /\ op.kind # "none"
    /\ i \in 1..Len(op.tasks)
    /\ op.tasks[i].st = "waiting"
    /\ op.tasks[i].fdone
    /\ LET r == ReplyResult(op.tasks[i].type, op.tasks[i].ftype, op.tasks[i].fpayload, now)
       IN op' = [op EXCEPT !.tasks[i].st = "returned", !.tasks[i].result = r,
                           !.errors = @ + (IF r = ExcResult THEN 1 ELSE 0)]
    /\ pending' = [pending EXCEPT ![op.node] = PopPending(@, op.tasks[i].id)]
    /\ UNCHANGED <<now, phase, attached, bootstrap_nodes, metrics, issued, loops, buckets, storage, storage_full,
                   limiter, network, next_id, ops_done, hist, rx>>

\* asyncio.TimeoutError: the call returns its timeout result and leaves
\* through "finally".
TaskTimeout(i) ==
    /\ op.kind # "none"
    /\ i \in 1..Len(op.tasks)
    /\ op.tasks[i].st = "waiting"
    /\ ~op.tasks[i].fdone
    /\ op' = [op EXCEPT !.tasks[i].st = "returned",
                        !.tasks[i].result = TimeoutResult(op.tasks[i].type)]
    /\ pending' = [pending EXCEPT ![op.node] = PopPending(@, op.tasks[i].id)]
    /\ UNCHANGED <<now, phase, attached, bootstrap_nodes, metrics, issued, loops, buckets, storage, storage_full,
                   limiter, network, next_id, ops_done, hist, rx>>

\* A timeout on a network that delivers every datagram it can: it fires only
\* once neither the request nor a reply to it is in flight.
TaskExpire(i) ==
    /\ i \in 1..Len(op.tasks)
    /\ \A f \in network : f.id # op.tasks[i].id
    /\ TaskTimeout(i)

\* ----------------------------------------------------------- inbound frames
\* The response type each call compares the completed future's type with.
ResponseOf(type) ==
    CASE type = "PING" -> "PONG"
      [] type = "FIND_NODE" -> "FIND_NODE_RESP"
      [] type = "FIND_VALUE" -> "FIND_VALUE_RESP"
      [] type = "STORE" -> "STORE_RESP"

\* A faulty variant: a frame completes the request of its id only when it is
\* of the response type the request expects.
CorrelateExpected(tasks, id, type, payload) ==
    [i \in 1..Len(tasks) |->
        IF /\ tasks[i].id = id /\ tasks[i].st \in {"registered", "waiting"} /\ ~tasks[i].fdone
           /\ type = ResponseOf(tasks[i].type)
        THEN [tasks[i] EXCEPT !.fdone = TRUE, !.ftype = type, !.fpayload = payload]
        ELSE tasks[i]]

\* A faulty variant: a reply goes to the oldest request still waiting,
\* whatever its id.
CorrelateFirst(tasks, id, type, payload) ==
    [i \in 1..Len(tasks) |->
        IF /\ tasks[i].st = "waiting" /\ ~tasks[i].fdone
           /\ \A j \in 1..(i - 1) : ~(tasks[j].st = "waiting" /\ ~tasks[j].fdone)
        THEN [tasks[i] EXCEPT !.fdone = TRUE, !.ftype = type, !.fpayload = payload]
        ELSE tasks[i]]

\* _handle_message, the reply branch: the future registered under the
\* frame's id gets (type, payload) unless it is already done.
Correlate(tasks, id, type, payload) ==
    [i \in 1..Len(tasks) |->
        IF tasks[i].id = id /\ tasks[i].st \in {"registered", "waiting"} /\ ~tasks[i].fdone
        THEN [tasks[i] EXCEPT !.fdone = TRUE, !.ftype = type, !.fpayload = payload]
        ELSE tasks[i]]

\* A faulty variant: the STORE handler reports success whatever the put did.
store_response_ok(raised) == [EmptyPayload EXCEPT !.success = TRUE]

\* The payload of the STORE handler's reply: {"success": True} after the put,
\* {"success": False, "error": str(e)} when the put raised.
store_response(raised) ==
    IF raised THEN [EmptyPayload EXCEPT !.success = FALSE, !.error = "StorageError"]
    ELSE [EmptyPayload EXCEPT !.success = TRUE]

\* A faulty variant: a frame of no request type has its sender put into the
\* routing table, as a PING has.
UnhandledRecorded(n, k, f, table, st, t) ==
    [table |-> IF f.payload.node_id # NoId
               THEN add_node(NodeIdOf(n), k, table, Peer(f.payload.node_id, f.src, t), t).table
               ELSE table,
     storage |-> st, out |-> {}]

\* _handle_request for a message type that is none of the request types: no
\* branch of the if / elif chain is taken.
Unhandled(n, k, f, table, st, t) == [table |-> table, storage |-> st, out |-> {}]

\* _handle_request: the routing table and store afterwards, and the reply
\* datagrams sent.
handle_request(n, k, f, table, st, full, t) ==
    LET self == NodeIdOf(n)
        reply(type, payload) == {pack_message(self, type, f.id, payload, n, f.src)}
        same == [table |-> table, storage |-> st, out |-> {}]
    IN CASE f.type = "PING" ->
              [table |-> IF f.payload.node_id # NoId
                         THEN add_node(self, k, table, Peer(f.payload.node_id, f.src, t), t).table
                         ELSE table,
               storage |-> st,
               out |-> reply("PONG", [EmptyPayload EXCEPT !.node_id = self])]
         [] f.type = "FIND_NODE" ->
              IF f.payload.target_id # NoId
              THEN [same EXCEPT !.out =
                      reply("FIND_NODE_RESP",
                            [EmptyPayload EXCEPT !.nodes =
                                NodesData(find_closest_nodes(self, table,
                                                             f.payload.target_id, K))])]
              ELSE same
         [] f.type = "FIND_VALUE" ->
              IF f.payload.key \in KeySet
              THEN IF StorageGet(st, f.payload.key, t) # NoValue
                   THEN [same EXCEPT !.out =
                           reply("FIND_VALUE_RESP",
                                 [EmptyPayload EXCEPT !.found = TRUE,
                                     !.value = StorageGet(st, f.payload.key, t)])]
                   ELSE [same EXCEPT !.out =
                           reply("FIND_VALUE_RESP",
                                 [EmptyPayload EXCEPT !.found = FALSE, !.nodes =
                                     NodesData(find_closest_nodes(self, table,
                                                   KeyToTarget(f.payload.key), K))])]
              ELSE same
         [] f.type = "STORE" ->
              IF f.payload.key \in KeySet /\ f.payload.value # NoValue
              THEN IF full
                   THEN [same EXCEPT !.out = reply("STORE_RESP", store_response(TRUE))]
                   ELSE [same EXCEPT
                           !.storage = StoragePut(st, f.payload.key, f.payload.value,
                                                  f.payload.ttl, t),
                           !.out = reply("STORE_RESP", store_response(FALSE))]
              ELSE same
         [] OTHER -> Unhandled(n, k, f, table, st, t)

RxSeen(r, accepted, why, t) ==
    [total |-> r.total + 1,
     accepted |-> r.accepted + (IF accepted THEN 1 ELSE 0),
     first |-> IF r.total = 0 THEN t ELSE r.first,
     global_hit |-> r.global_hit \/ why = "global"]

\* A faulty variant: replies are correlated before the rate limiter is
\* consulted.
HandleMessageReplyFirst(f) ==
    /\ f \in network
    /\ phase[f.dst] = "running"
    /\ LET n == f.dst
           rl == check_rate_limit(limiter[n], f.node_id, now)
       IN IF f.id \in pending[n]
          THEN /\ pending' = [pending EXCEPT ![n] = @ \ {f.id}]
               /\ op' = IF op.node = n
                        THEN [op EXCEPT !.tasks = Correlate(@, f.id, f.type, f.payload)]
                        ELSE op
               /\ rx' = [rx EXCEPT ![n][f.src] = RxSeen(@, TRUE, "ok", now)]
               /\ network' = network \ {f}
               /\ UNCHANGED <<limiter, buckets, storage>>
          ELSE /\ limiter' = [limiter EXCEPT ![n] = rl.lim]
               /\ rx' = [rx EXCEPT ![n][f.src] = RxSeen(@, rl.ok, rl.why, now)]
               /\ IF ~rl.ok
                  THEN /\ network' = network \ {f}
                       /\ UNCHANGED <<pending, op, buckets, storage>>
                  ELSE LET r == handle_request(n, K, f, buckets[n], storage[n],
                                               storage_full[n], now)
                       IN /\ buckets' = [buckets EXCEPT ![n] = r.table]
                          /\ storage' = [storage EXCEPT ![n] = r.storage]
                          /\ network' = (network \ {f}) \cup r.out
                          /\ UNCHANGED <<pending, op>>
    /\ UNCHANGED <<now, phase, attached, bootstrap_nodes, metrics, issued, loops, storage_full, next_id,
                   ops_done, hist>>

\* _handle_message: the rate-limit check, then either the reply branch or
\* the request handlers.
HandleMessage(f) ==
    /\ f \in network
    /\ phase[f.dst] = "running"
    /\ LET n == f.dst
           rl == check_rate_limit(limiter[n], f.node_id, now)
       IN /\ limiter' = [limiter EXCEPT ![n] = rl.lim]
          /\ rx' = [rx EXCEPT ![n][f.src] = RxSeen(@, rl.ok, rl.why, now)]
          /\ IF ~rl.ok
             THEN /\ network' = network \ {f}
                  /\ UNCHANGED <<pending, op, buckets, storage>>
             ELSE IF f.id \in pending[n]
             THEN /\ pending' = [pending EXCEPT ![n] = @ \ {f.id}]
                  /\ op' = IF op.node = n
                           THEN [op EXCEPT !.tasks = Correlate(@, f.id, f.type, f.payload)]
                           ELSE op
                  /\ network' = network \ {f}
                  /\ UNCHANGED <<buckets, storage>>
             ELSE LET r == handle_request(n, K, f, buckets[n], storage[n], storage_full[n], now)
                  IN /\ buckets' = [buckets EXCEPT ![n] = r.table]
                     /\ storage' = [storage EXCEPT ![n] = r.storage]
                     /\ network' = (network \ {f}) \cup r.out
                     /\ UNCHANGED <<pending, op>>
    /\ UNCHANGED <<now, phase, attached, bootstrap_nodes, metrics, issued, loops, storage_full, next_id,
                   ops_done, hist>>

\* The network loses a datagram (also one addressed to a node that is not
\* listening).
Drop(f) ==
    /\ f \in network
    /\ network' = network \ {f}
    /\ UNCHANGED <<now, phase, attached, bootstrap_nodes, metrics, issued, loops, buckets, storage, storage_full,
                   pending, limiter, next_id, op, ops_done, hist, rx>>

\* A reply arrives malformed: under a message type the caller does not
\* expect, or with a payload that is not a mapping.
ReplyTypes == {"PONG", "FIND_NODE_RESP", "FIND_VALUE_RESP", "STORE_RESP"}

Corrupt(f) ==
    /\ f \in network
    /\ f.type \in ReplyTypes
    /\ f.payload.mapping
    /\ \E g \in {[f EXCEPT !.type = "UNKNOWN", !.payload = EmptyPayload],
                  [f EXCEPT !.payload = [EmptyPayload EXCEPT !.mapping = FALSE]]} :
          network' = (network \ {f}) \cup {g}
    /\ UNCHANGED <<now, phase, attached, bootstrap_nodes, metrics, issued, loops, buckets, storage, storage_full,
                   pending, limiter, next_id, op, ops_done, hist, rx>>

\* What NetworkProtocol.stop leaves in the outstanding-request table.
StopPending(pend) == pend

\* BaseNode.stop: is_running = False, NetworkProtocol.stop, UDPTransport.stop
\* (the socket is closed).
Stop(n) ==
    /\ phase[n] = "running"
    /\ phase' = [phase EXCEPT ![n] = "stopped"]
    /\ pending' = [pending EXCEPT ![n] = StopPending(@)]
    /\ UNCHANGED <<now, attached, bootstrap_nodes, metrics, issued, loops, buckets, storage, storage_full,
                   limiter, network, next_id, op, ops_done, hist, rx>>

\* Time passes.
TickSteps == {30}

Tick(d) ==
    /\ now + d <= MaxTime
    /\ now' = now + d
    /\ UNCHANGED <<phase, attached, bootstrap_nodes, metrics, issued, loops, buckets, storage, storage_full,
                   pending, limiter, network, next_id, op, ops_done, hist, rx>>

\* -------------------------------------------------------------- DHT engine
Done(o, outcome, result) ==
    [o EXCEPT !.pc = "done", !.outcome = outcome, !.result = result, !.tasks = <<>>]

AllReturned(o) ==
    /\ o.tasks # <<>>
    /\ \A i \in 1..Len(o.tasks) : o.tasks[i].st = "returned"

\* A faulty variant: candidates taken from the closest list without the
\* filter on queried.
UnqueriedAll(o) == o.closest

\* DHTProtocol.find_node / find_value: [n for n in closest if n.node_id not in queried].
Unqueried(o) == SelectSeq(o.closest, LAMBDA p : p.node_id \notin o.queried)

RECURSIVE AddUnseen(_, _)
AddUnseen(seen, found) ==
    IF found = <<>> THEN seen
    ELSE AddUnseen(IF Head(found).node_id \in PeerIds(seen) THEN seen
                   ELSE Append(seen, Head(found)),
                   Tail(found))

\* A faulty variant: a gather without return_exceptions, which raises what
\* its first failing call raised.
GatherRaisesOnExc(tasks) == \E i \in 1..Len(tasks) : tasks[i].result.kind = "exc"

\* asyncio.gather(..., return_exceptions=True): a call that raised shows up
\* as a result of its own, so the gather itself never raises.
GatherRaises(tasks) == FALSE

\* The peers of every list among the gathered results, in order.
RECURSIVE FoundNodes(_, _)
FoundNodes(tasks, i) ==
    IF i > Len(tasks) THEN <<>>
    ELSE (IF tasks[i].result.kind = "list"
          THEN tasks[i].result.nodes ELSE <<>>)
         \o FoundNodes(tasks, i + 1)

\* DHTProtocol.store after its lookup: the peers STORE is dispatched to.
StoreTargets(found, self, table, target) ==
    Take(IF found = <<>> THEN find_closest_nodes(self, table, target, K) ELSE found, K)

\* DHTProtocol.store, from the lookup's result to the dispatch of STORE.
StoreDispatch(o, found, table) ==
    LET targets == StoreTargets(found, NodeIdOf(o.node), table, o.target)
    IN IF targets # <<>>
       THEN [o EXCEPT !.pc = "st_wait", !.dispatched = targets,
                      !.tasks = [i \in 1..Len(targets) |-> NewTask("STORE", targets[i])]]
       ELSE Done(o, "ok", BoolResult(TRUE))

\* DHTProtocol.find_node: return closest[:alpha].
FindNodeFinish(o, table) ==
    IF o.kind = "store" THEN StoreDispatch(o, Take(o.closest, alpha), table)
    ELSE Done(o, "ok", ListResult(Take(o.closest, alpha)))

\* DHTProtocol.find_node: the top of the loop.
FindNodeSelect(o, table) ==
    LET candidates == Take(Unqueried(o), alpha)
    IN IF candidates = <<>> THEN FindNodeFinish(o, table)
       ELSE [o EXCEPT !.pc = "fn_wait", !.candidates = candidates, !.rounds = @ + 1,
                      !.tasks = [i \in 1..Len(candidates) |->
                                    NewTask("FIND_NODE", candidates[i])]]

\* A faulty variant: the closest list is the first alpha peers seen, in the
\* order they were seen.
FindNodeCollectUnsorted(o, table) ==
    LET seen == AddUnseen(o.seen, FoundNodes(o.tasks, 1))
        o2 == [o EXCEPT !.seen = seen,
                        !.queried = @ \cup PeerIds(o.candidates),
                        !.closest = Take(seen, alpha)]
    IN IF GatherRaises(o.tasks) THEN Done(o, "NetworkError", NoResult)
       ELSE IF Len(seen) = Len(o.seen) THEN FindNodeFinish(o2, table)
       ELSE FindNodeSelect(o2, table)

\* DHTProtocol.find_node: after the gather of one round.
FindNodeCollect(o, table) ==
    LET seen == AddUnseen(o.seen, FoundNodes(o.tasks, 1))
        o2 == [o EXCEPT !.seen = seen,
                        !.queried = @ \cup PeerIds(o.candidates),
                        !.closest = Take(SortByDistance(seen, o.target), alpha)]
    IN IF GatherRaises(o.tasks) THEN Done(o, "NetworkError", NoResult)
       ELSE IF Len(seen) = Len(o.seen) THEN FindNodeFinish(o2, table)
       ELSE FindNodeSelect(o2, table)

\* DHTProtocol.find_node: the shortlist from the routing table.
FindNodeStart(o, table) ==
    LET closest == find_closest_nodes(NodeIdOf(o.node), table, o.target, alpha)
        o2 == [o EXCEPT !.closest = closest, !.seen = closest, !.queried = {}]
    IN IF ~attached[o.node] THEN Done(o2, "ok", ListResult(closest))
       ELSE FindNodeSelect(o2, table)

\* DHTProtocol.store: the result once the STOREs are gathered.
StoreResult(tasks) ==
    Cardinality({i \in 1..Len(tasks) :
                    tasks[i].result = BoolResult(TRUE)}) > 0

StoreCollect(o) ==
    IF GatherRaises(o.tasks) THEN Done(o, "NetworkError", NoResult)
    ELSE Done(o, "ok", BoolResult(StoreResult(o.tasks)))

\* DHTProtocol.find_value: the top of the loop.
FindValueSelect(o) ==
    LET candidates == Take(Unqueried(o), alpha)
    IN IF candidates = <<>> THEN Done(o, "ValueNotFound", NoResult)
       ELSE [o EXCEPT !.pc = "fv_wait", !.candidates = candidates, !.rounds = @ + 1,
                      !.tasks = [i \in 1..Len(candidates) |->
                                    NewTask("FIND_VALUE", candidates[i])]]

\* DHTProtocol.find_value: the first bytes result among the gathered ones.
FoundValue(tasks) ==
    IF \E i \in 1..Len(tasks) : tasks[i].result.kind = "bytes"
    THEN tasks[CHOOSE i \in 1..Len(tasks) :
                  /\ tasks[i].result.kind = "bytes"
                  /\ \A j \in 1..(i - 1) : tasks[j].result.kind # "bytes"
              ].result.value
    ELSE NoValue

\* DHTProtocol.find_value: after the gather of FIND_VALUE.
FindValueCollect(o) ==
    IF GatherRaises(o.tasks) THEN Done(o, "NetworkError", NoResult)
    ELSE IF FoundValue(o.tasks) # NoValue
    THEN Done([o EXCEPT !.values = @ + 1], "ok", BytesResult(FoundValue(o.tasks)))
    ELSE [o EXCEPT !.pc = "fv_expand", !.idx = 1,
                   !.tasks = <<NewTask("FIND_NODE", o.candidates[1])>>]

\* A faulty variant: the expansion without its try/except.
ExpandRaisesOnExc(r) == r.kind = "exc"

\* DHTProtocol.find_value: the expansion's try/except swallows what the
\* FIND_NODE call raised.
ExpandRaises(r) == FALSE

\* DHTProtocol.find_value: after one FIND_NODE of the expansion.
FindValueExpand(o) ==
    LET r == o.tasks[1].result
        seen == IF r.kind = "list" THEN AddUnseen(o.seen, r.nodes) ELSE o.seen
    IN IF ExpandRaises(r) THEN Done(o, "NetworkError", NoResult)
       ELSE IF o.idx < Len(o.candidates)
       THEN [o EXCEPT !.seen = seen, !.idx = @ + 1,
                      !.tasks = <<NewTask("FIND_NODE", o.candidates[o.idx + 1])>>]
       ELSE LET o2 == [o EXCEPT !.seen = seen,
                                !.queried = @ \cup PeerIds(o.candidates),
                                !.closest = Take(SortByDistance(seen, o.target), alpha)]
            IN IF Cardinality(o2.queried) >= Len(seen)
               THEN Done(o2, "ValueNotFound", NoResult)
               ELSE FindValueSelect(o2)

\* DHTProtocol.find_value: the local store first.
FindValueStart(o, st, t) ==
    IF StorageGet(st, o.key, t) # NoValue
    THEN Done(o, "ok", BytesResult(StorageGet(st, o.key, t)))
    ELSE IF ~attached[o.node] THEN Done(o, "ValueNotFound", NoResult)
    ELSE LET target == KeyToTarget(o.key)
             closest == find_closest_nodes(NodeIdOf(o.node), buckets[o.node], target, alpha)
         IN FindValueSelect([o EXCEPT !.target = target, !.closest = closest,
                                      !.seen = closest, !.queried = {}])

\* BaseNode.bootstrap: the PING of the next endpoint, to a stub peer with
\* the all-zero ID.
BootstrapNext(o, i) ==
    IF i > Len(bootstrap_nodes[o.node]) THEN Done(o, "ok", BoolResult(o.connected))
    ELSE [o EXCEPT !.pc = "bs_wait", !.idx = i,
                   !.tasks = <<NewTask("PING", Peer(StubId, bootstrap_nodes[o.node][i], now))>>]

\* BaseNode.bootstrap: the peer added to the routing table after a PING
\* that succeeded.
BootstrapPeer(task) == task.peer

\* DHTProtocol.ping: a failure of the call surfaces; otherwise the Node
\* object the caller passed (o.peer afterwards) is marked seen when the call
\* returned True, and gets a failed ping when it returned False.
PingCollect(o) ==
    IF o.tasks[1].result.kind = "exc" THEN Done(o, "NetworkError", NoResult)
    ELSE Done([o EXCEPT !.peer = IF o.tasks[1].result.flag
                                 THEN update_seen(o.tasks[1].peer, now)
                                 ELSE record_failed_ping(o.tasks[1].peer)],
              "ok", o.tasks[1].result)

\* ------------------------------------------------------- client operations
Summary(o) ==
    [kind |-> o.kind, node |-> o.node, no |-> o.no, key |-> o.key, value |-> o.value,
     ttl |-> o.ttl, target |-> o.target, outcome |-> o.outcome, result |-> o.result,
     peer |-> o.peer, sent |-> o.sent, dispatched |-> o.dispatched, seen |-> o.seen, rounds |-> o.rounds,
     local |-> o.local, values |-> o.values, errors |-> o.errors]

Settle(o2) ==
    IF o2.pc = "done"
    THEN /\ hist' = Append(hist, Summary(o2))
         /\ op' = IdleOp
    ELSE /\ op' = o2
         /\ UNCHANGED hist

NewOp(kind, n) == [IdleOp EXCEPT !.kind = kind, !.node = n, !.no = Len(hist) + 1]

\* BaseNode.start: the transport comes up, then bootstrap.
BeginStart(n) ==
    /\ op.kind = "none"
    /\ network = {}
    /\ phase[n] = "new"
    /\ attached[n]
    /\ phase' = [phase EXCEPT ![n] = "running"]
    /\ Settle(BootstrapNext(NewOp("start", n), 1))
    /\ UNCHANGED <<now, attached, bootstrap_nodes, metrics, issued, loops, buckets, storage, storage_full, pending,
                   limiter, network, next_id, ops_done, rx>>

\* DHTProtocol.ping(node) of the peer at address m.
BeginPing(n, m) ==
    /\ op.kind = "none"
    /\ network = {}
    /\ ops_done < MaxPings
    /\ attached[n]
    /\ ops_done' = ops_done + 1
    /\ Settle([NewOp("ping", n) EXCEPT !.pc = "pg_wait",
                  !.tasks = <<NewTask("PING", Peer(NodeIdOf(m), m, now))>>])
    /\ UNCHANGED <<now, phase, attached, bootstrap_nodes, metrics, issued, loops, buckets, storage, storage_full,
                   pending, limiter, network, next_id, rx>>

\* DHTProtocol.find_node(target_id)
BeginFindNode(n, target) ==
    /\ op.kind = "none"
    /\ network = {}
    /\ ops_done < MaxOps
    /\ ops_done' = ops_done + 1
    /\ Settle(FindNodeStart([NewOp("find_node", n) EXCEPT !.target = target], buckets[n]))
    /\ UNCHANGED <<now, phase, attached, bootstrap_nodes, metrics, issued, loops, buckets, storage, storage_full,
                   pending, limiter, network, next_id, rx>>

\* DHTProtocol.find_value(key)
BeginFindValue(n, key) ==
    /\ op.kind = "none"
    /\ network = {}
    /\ ops_done < MaxOps
    /\ ops_done' = ops_done + 1
    /\ Settle(FindValueStart(
                 [NewOp("find_value", n) EXCEPT !.key = key,
                     !.local = StorageGet(storage[n], key, now) # NoValue],
                 storage[n], now))
    /\ UNCHANGED <<now, phase, attached, bootstrap_nodes, metrics, issued, loops, buckets, storage, storage_full,
                   pending, limiter, network, next_id, rx>>

\* A faulty variant: the value is put under another key.
LocalPutKeyOther(key) == CHOOSE k \in KeySet : k # key

\* DHTProtocol.store: the key the value is put under in the local store.
LocalPutKey(key) == key

\* DHTProtocol.store(key, value, ttl): the local put, then the lookup of the
\* key's target.
BeginStore(n, key, value, ttl) ==
    /\ op.kind = "none"
    /\ network = {}
    /\ ops_done < MaxOps
    /\ ops_done' = ops_done + 1
    /\ LET o == [NewOp("store", n) EXCEPT !.key = key, !.value = value, !.ttl = ttl,
                                         !.target = KeyToTarget(key)]
       IN IF storage_full[n]
          THEN /\ Settle(Done(o, "StorageError", NoResult))
               /\ UNCHANGED storage
          ELSE /\ storage' = [storage EXCEPT ![n] =
                                 StoragePut(@, LocalPutKey(key), value, ttl, now)]
               /\ IF ~attached[n] THEN Settle(Done(o, "ok", BoolResult(TRUE)))
                  ELSE Settle(FindNodeStart(o, buckets[n]))
    /\ UNCHANGED <<now, phase, attached, bootstrap_nodes, metrics, issued, loops, buckets, storage_full,
                   pending, limiter, network, next_id, rx>>

\* Every call of the operation's gather (or its one awaited call) has
\* returned: the operation goes on.
Collect ==
    /\ op.kind # "none"
    /\ AllReturned(op)
    /\ LET n == op.node
           r == op.tasks[1].result
           pinged == op.pc = "bs_wait" /\ r = BoolResult(TRUE)
       IN /\ buckets' = IF pinged
                        THEN [buckets EXCEPT ![n] =
                                add_node(NodeIdOf(n), K, @, BootstrapPeer(op.tasks[1]), now).table]
                        ELSE buckets
          /\ Settle(CASE op.pc = "fn_wait" -> FindNodeCollect(op, buckets[n])
                      [] op.pc = "st_wait" -> StoreCollect(op)
                      [] op.pc = "fv_wait" -> FindValueCollect(op)
                      [] op.pc = "fv_expand" -> FindValueExpand(op)
                      [] op.pc = "pg_wait" -> PingCollect(op)
                      [] op.pc = "bs_wait" ->
                            BootstrapNext([op EXCEPT !.connected = @ \/ pinged], op.idx + 1))
    /\ UNCHANGED <<now, phase, attached, bootstrap_nodes, metrics, issued, loops, storage, storage_full, pending,
                   limiter, network, next_id, ops_done, rx>>

\* ---------------------------------------------------------------- popularity
\* Floating-point quantities are fixed-point integers: a score, a freshness,
\* a coverage or a normalised metric x is the integer x * Scale, a request
\* rate r (requests per hour) is the integer r * RateScale, a weight w is the
\* integer w * 100.  Divisions round down.
Scale == 10000
RateScale == 100
NoTime == -1
NoLimit == -1
Hour == 3600
Day == 86400
Week == 604800
timestamps_maxlen == 1000
Max(a, b) == IF a > b THEN a ELSE b

\* PopularityMetrics(key=key) constructed at time t.
NewMetrics(key, t) ==
    [key |-> key, request_count |-> 0, request_rate |-> 0, replication_count |-> 1,
     freshness_score |-> Scale, audience_size |-> 1, social_engagements |-> 0,
     seed_coverage |-> 0, first_seen |-> t, last_request |-> t, created_at |-> NoTime,
     request_timestamps |-> <<>>, requesting_nodes |-> {}]

\* PopularityMetrics.update_request
update_request(m, node_id, t) ==
    LET ts == DequeAppend(m.request_timestamps, t, timestamps_maxlen)
        nodes == IF node_id # NoId THEN m.requesting_nodes \cup {node_id}
                 ELSE m.requesting_nodes
        time_span == ts[Len(ts)] - ts[1]
    IN [m EXCEPT !.request_count = @ + 1,
                 !.last_request = t,
                 !.request_timestamps = ts,
                 !.requesting_nodes = nodes,
                 !.audience_size = IF node_id # NoId THEN Cardinality(nodes) ELSE @,
                 !.request_rate =
                     IF Len(ts) > 1
                     THEN IF time_span > 0
                          THEN (Len(ts) * Hour * RateScale) \div time_span
                          ELSE Len(ts) * Hour * RateScale
                     ELSE IF m.request_count + 1 > 0 THEN RateScale ELSE 0]

\* 0.5 ** (d / 7) for d = 0..6 whole days, to four decimals.
HalfLifeByDay == <<10000, 9057, 8203, 7430, 6730, 6095, 5520>>

\* 0.5 ** (days / 7), the age taken in whole days.
HalfLife(age_seconds) ==
    LET days == age_seconds \div Day
    IN HalfLifeByDay[(days % 7) + 1] \div Pow2(Min(days \div 7, 20))

\* A faulty variant: past one day the score is 0.5 ** (days / 7), without the
\* factor 0.5.
freshness_unhalved(age_seconds) ==
    IF age_seconds < Hour THEN Scale
    ELSE IF age_seconds < Day THEN Scale - (age_seconds * Scale) \div (2 * Day)
    ELSE Max(Scale \div 10, HalfLife(age_seconds))

\* The freshness_score update_freshness(age_seconds) assigns.
freshness(age_seconds) ==
    IF age_seconds < Hour THEN Scale
    ELSE IF age_seconds < Day THEN Scale - (age_seconds * Scale) \div (2 * Day)
    ELSE Max(Scale \div 10, HalfLife(age_seconds) \div 2)

\* PopularityMetrics.update_freshness() at time t.
update_freshness(m, t) ==
    [m EXCEPT !.freshness_score =
        freshness(IF m.created_at # NoTime /\ m.created_at # 0 THEN t - m.created_at
                  ELSE t - m.first_seen)]

\* A faulty variant: the count is assigned, not max-merged.
update_replication_assign(m, count) == [m EXCEPT !.replication_count = count]

\* PopularityMetrics.update_replication
update_replication(m, count) == [m EXCEPT !.replication_count = Max(@, count)]

\* PopularityMetrics.update_social_engagement
update_social_engagement(m, count) == [m EXCEPT !.social_engagements = @ + count]

\* PopularityMetrics.from_dict of a received mapping, at time t.
from_dict(data, t) ==
    [NewMetrics(data.key, t) EXCEPT
        !.request_count = data.request_count,
        !.request_rate = data.request_rate,
        !.replication_count = data.replication_count,
        !.freshness_score = data.freshness_score,
        !.audience_size = data.audience_size,
        !.social_engagements = data.social_engagements,
        !.seed_coverage = data.seed_coverage,
        !.first_seen = data.first_seen,
        !.last_request = data.last_request,
        !.created_at = data.created_at]

\* The collector's dict: the keys it holds, and the entry of a key.
MetricKeys(coll) == {coll[i].key : i \in 1..Len(coll)}
IndexOf(coll, key) == CHOOSE i \in 1..Len(coll) : coll[i].key = key
get_metrics(coll, key) == coll[IndexOf(coll, key)]

\* self.metrics[key] = PopularityMetrics(key=key) if the key is not there.
Ensure(coll, key, t) ==
    IF key \in MetricKeys(coll) THEN coll ELSE Append(coll, NewMetrics(key, t))

\* MetricsCollector.record_find_value
record_find_value(coll, key, node_id, t) ==
    LET c == Ensure(coll, key, t)
    IN [c EXCEPT ![IndexOf(c, key)] = update_freshness(update_request(@, node_id, t), t)]

\* MetricsCollector.record_store
record_store(coll, key, replication_count, t) ==
    LET c == Ensure(coll, key, t)
    IN [c EXCEPT ![IndexOf(c, key)] =
            update_freshness(update_replication(@, replication_count), t)]

\* MetricsCollector.record_social_engagement
record_social_engagement(coll, key, count, t) ==
    LET c == Ensure(coll, key, t)
    IN [c EXCEPT ![IndexOf(c, key)] = update_social_engagement(@, count)]

\* MetricsCollector.update_all_freshness
update_all_freshness(coll, t) == [i \in 1..Len(coll) |-> update_freshness(coll[i], t)]

\* A faulty variant: the sweep also drops a key whose last request is
\* exactly max_age_days old.
cleanup_old_metrics_inclusive(coll, max_age_days, t) ==
    SelectSeq(coll, LAMBDA m : ~((t - m.last_request) >= max_age_days * Day))

\* MetricsCollector.cleanup_old_metrics
cleanup_old_metrics(coll, max_age_days, t) ==
    SelectSeq(coll, LAMBDA m : ~((t - m.last_request) > max_age_days * Day))

\* The base weights of calculate_score, in hundredths.
BaseWeights ==
    [request_rate |-> 25, replication_factor |-> 20, freshness |-> 15,
     audience_size |-> 10, social_engagements |-> 20, seed_coverage |-> 10]

\* The weights of calculate_score, in hundredths, for an age.
Weights(age_seconds) ==
    LET base == BaseWeights
    IN IF age_seconds < Day
       THEN [base EXCEPT !.freshness = 30, !.social_engagements = 10, !.seed_coverage = 5]
       ELSE IF age_seconds < Week
       THEN [base EXCEPT !.social_engagements = 30, !.freshness = 10, !.seed_coverage = 5]
       ELSE [base EXCEPT !.seed_coverage = 25, !.social_engagements = 15, !.freshness = 5]

\* min(1.0, x / full)
Normalized(x, full) == IF x >= full THEN Scale ELSE (x * Scale) \div full

\* PopularityRanker._normalize_metrics
normalize_metrics(m) ==
    [request_rate |-> Normalized(m.request_rate, 100 * RateScale),
     replication_factor |-> Normalized(m.replication_count, 20),
     freshness |-> m.freshness_score,
     audience_size |-> Normalized(m.audience_size, 50),
     social_engagements |-> Normalized(m.social_engagements, 100),
     seed_coverage |-> m.seed_coverage]

\* The weighted sum of calculate_score, times 10.
RawScore(m, t) ==
    LET w == Weights(t - m.first_seen)
        n == normalize_metrics(m)
    IN (n.request_rate * w.request_rate
        + n.replication_factor * w.replication_factor
        + n.freshness * w.freshness
        + n.audience_size * w.audience_size
        + n.social_engagements * w.social_engagements
        + n.seed_coverage * w.seed_coverage) \div 10

\* A faulty variant: the score is not clamped.
calculate_score_raw(m, t) == RawScore(m, t)

\* PopularityRanker.calculate_score at time t.
calculate_score(m, t) == Min(10 * Scale, Max(0, RawScore(m, t)))

\* RankedItem
RankedItem(m, t) == [key |-> m.key, score |-> calculate_score(m, t), metrics |-> m]

\* list.sort(reverse=True) with RankedItem.__lt__: descending by score, items
\* of equal score in their former order.
RECURSIVE InsertRanked(_, _)
InsertRanked(x, s) ==
    IF s = <<>> THEN <<x>>
    ELSE IF Head(s).score < x.score THEN <<x>> \o s
    ELSE <<Head(s)>> \o InsertRanked(x, Tail(s))

RECURSIVE SortRanked(_)
SortRanked(s) ==
    IF s = <<>> THEN <<>>
    ELSE InsertRanked(s[Len(s)], SortRanked(SubSeq(s, 1, Len(s) - 1)))

\* PopularityRanker.rank_items; limit = NoLimit stands for None.
rank_items(coll, limit, t) ==
    LET ranked_items == SortRanked([i \in 1..Len(coll) |-> RankedItem(coll[i], t)])
    IN IF limit # NoLimit /\ limit # 0 THEN Take(ranked_items, limit) ELSE ranked_items

\* PopularityRanker.get_popular_items
get_popular_items(coll, limit, threshold, t) ==
    Take(SelectSeq(rank_items(coll, NoLimit, t), LAMBDA item : item.score >= threshold),
         limit)

\* DHTProtocol.store on a node whose routing table is empty: the local put
\* (which raises when the store is over its cap), then no peer to store on.
StoreAlone(st, full, key, value, ttl, t) ==
    IF full THEN [storage |-> st, ok |-> FALSE]
    ELSE [storage |-> StoragePut(st, key, value, ttl, t), ok |-> TRUE]

popular_replication_factor == 10
PopularLimit == 100
popular_ttl == 2592000

\* A faulty variant: the replication count of an item is not looked at.
Replicated(item) == FALSE

\* The item already has its target replication.
EnoughReplicas(item) == item.metrics.replication_count >= popular_replication_factor

\* Replicator.replicate_popular_items: the store calls issued, the results
\* (key, success) in the order they were set, and the local store afterwards.
RECURSIVE ReplicateItems(_, _, _, _, _)
ReplicateItems(items, threshold, acc, full, t) ==
    IF items = <<>> THEN acc
    ELSE LET item == Head(items)
             value == StorageGet(acc.storage, item.key, t)
             rest == Tail(items)
         IN IF item.score < threshold
            THEN ReplicateItems(rest, threshold, acc, full, t)
            ELSE IF value = NoValue
            THEN ReplicateItems(rest, threshold,
                     [acc EXCEPT !.results = Append(@, [key |-> item.key, ok |-> FALSE])],
                     full, t)
            ELSE IF EnoughReplicas(item)
            THEN ReplicateItems(rest, threshold,
                     [acc EXCEPT !.results = Append(@, [key |-> item.key, ok |-> TRUE])],
                     full, t)
            ELSE LET r == StoreAlone(acc.storage, full, item.key, value, popular_ttl, t)
                 IN ReplicateItems(rest, threshold,
                        [storage |-> r.storage,
                         calls |-> Append(acc.calls,
                                     [key |-> item.key, value |-> value, ttl |-> popular_ttl]),
                         results |-> Append(acc.results, [key |-> item.key, ok |-> r.ok])],
                        full, t)

replicate_popular_items(ranked_items, threshold, st, full, t) ==
    ReplicateItems(ranked_items, threshold,
                   [storage |-> st, calls |-> <<>>, results |-> <<>>], full, t)

\* The store's extend_ttl(key, extension): the remaining TTL times
\* (1 + extension), capped at popular_ttl; nothing for a key the store does
\* not hold.  An extension is in hundredths: 100 stands for 1.0, 50 for 0.5.
extend_ttl(st, key, extension, t) ==
    IF StorageGet(st, key, t) = NoValue THEN st
    ELSE [st EXCEPT ![key].expires_at =
             t + Min(((@ - t) * (100 + extension)) \div 100, popular_ttl)]

\* A faulty variant: the active branch is an "if" of its own, so a popular
\* item is extended twice.
ExtendForBoth(item, popularity_threshold, active_threshold) ==
    (IF item.score >= popularity_threshold
     THEN <<[key |-> item.key, extension |-> 100]>> ELSE <<>>)
    \o (IF item.score >= active_threshold
        THEN <<[key |-> item.key, extension |-> 50]>> ELSE <<>>)

\* _update_popularity_rankings, the body of its loop over the ranked items:
\* the extend_ttl calls made for one item.
ExtendFor(item, popularity_threshold, active_threshold) ==
    IF item.score >= popularity_threshold
    THEN <<[key |-> item.key, extension |-> 100]>>
    ELSE IF item.score >= active_threshold
    THEN <<[key |-> item.key, extension |-> 50]>>
    ELSE <<>>

RECURSIVE ExtendCalls(_, _, _)
ExtendCalls(ranked, popularity_threshold, active_threshold) ==
    IF ranked = <<>> THEN <<>>
    ELSE ExtendFor(Head(ranked), popularity_threshold, active_threshold)
         \o ExtendCalls(Tail(ranked), popularity_threshold, active_threshold)

RECURSIVE ApplyExtends(_, _, _)
ApplyExtends(st, calls, t) ==
    IF calls = <<>> THEN st
    ELSE ApplyExtends(extend_ttl(st, Head(calls).key, Head(calls).extension, t),
                      Tail(calls), t)

\* _update_popularity_rankings: the ranking, the extend_ttl calls, the calls
\* and results of the replicator, and the local store afterwards.
update_popularity_rankings(coll, popularity_threshold, active_threshold, st, full, t) ==
    IF coll = <<>>
    THEN [ranked |-> <<>>, extended |-> <<>>, storage |-> st, calls |-> <<>>,
          results |-> <<>>]
    ELSE LET ranked == rank_items(coll, PopularLimit, t)
             extended == ExtendCalls(ranked, popularity_threshold, active_threshold)
             popular_items ==
                 SelectSeq(ranked, LAMBDA item : item.score >= popularity_threshold)
             r == IF popular_items # <<>>
                  THEN replicate_popular_items(popular_items, popularity_threshold,
                                               ApplyExtends(st, extended, t), full, t)
                  ELSE [storage |-> ApplyExtends(st, extended, t), calls |-> <<>>,
                        results |-> <<>>]
         IN [ranked |-> ranked, extended |-> extended, storage |-> r.storage,
             calls |-> r.calls, results |-> r.results]

\* --------------------------------------------------------- background loops
\* _background_tasks, _popularity_tasks and (on a seed node) _seed_tasks: each
\* is   while self.is_running: try: <steps>; sleep  except Exception: log; sleep
LoopNames == {"maintenance", "popularity", "seed"}

\* pc: "none" (no task yet), "while", "body" (before step `step`), "sleep",
\* "except", "except_sleep", "exited" (the while test failed), "dead" (an
\* exception left the coroutine); caught: the loop has caught an exception.
NoLoops == [l \in LoopNames |-> [pc |-> "none", step |-> 0, caught |-> FALSE]]

\* The steps of one iteration, in order.
LoopSteps(l) ==
    IF l = "maintenance" THEN <<"refresh_buckets", "cleanup_expired">>
    ELSE IF l = "popularity"
    THEN <<"update_popularity_rankings", "exchange_popularity",
           "update_all_freshness", "cleanup_old_metrics">>
    ELSE <<"update_global_ranking">>

\* The steps that run only when their interval has elapsed.
Periodic == {"update_popularity_rankings", "exchange_popularity", "update_global_ranking"}

\* The loop after a step: before the next step, or in the sleep that ends the
\* try block.
AfterStep(loop, l) ==
    IF loop.step < Len(LoopSteps(l)) THEN [loop EXCEPT !.step = @ + 1]
    ELSE [loop EXCEPT !.pc = "sleep", !.step = 0]

\* A faulty variant: the exception leaves the coroutine.
OnExceptionUncaught(loop) == [loop EXCEPT !.pc = "dead", !.step = 0]

\* A step raised: control is in the loop's except Exception clause.
OnException(loop) == [loop EXCEPT !.pc = "except", !.step = 0, !.caught = TRUE]

\* ---------------------------------------------------------- specifications
ChainBootstrap == [n \in Nodes |-> IF n < NumNodes THEN <<n + 1>> ELSE <<>>]
NoBootstrap == [n \in Nodes |-> <<>>]

InitCommon ==
    /\ now = 0
    /\ phase = [n \in Nodes |-> "new"]
    /\ buckets = [n \in Nodes |-> EmptyTable]
    /\ pending = [n \in Nodes |-> {}]
    /\ limiter = [n \in Nodes |-> EmptyLimiter]
    /\ network = {}
    /\ next_id = 1
    /\ op = IdleOp
    /\ ops_done = 0
    /\ hist = <<>>
    /\ rx = [n \in Nodes |-> [m \in Nodes |->
                [total |-> 0, accepted |-> 0, first |-> 0, global_hit |-> FALSE]]]
    /\ metrics = <<>>
    /\ issued = <<>>
    /\ loops = NoLoops

\* The steps of an operation over a network that loses datagrams, garbles
\* replies and delays datagrams past the request's timeout; a delayed
\* datagram is delivered or lost before the operation's gather returns.
Wire ==
    \/ \E i \in 1..alpha : TaskRegister(i)
    \/ \E i \in 1..alpha : TaskSend(i)
    \/ \E i \in 1..alpha : ~Launching /\ TaskReturn(i)
    \/ \E i \in 1..alpha : ~Launching /\ TaskTimeout(i)
    \/ network = {} /\ Collect
    \/ \E f \in network : ~Launching /\ HandleMessage(f)
    \/ \E f \in network : ~Launching /\ Drop(f)
    \/ \E f \in network : ~Launching /\ Corrupt(f)

\* Five nodes, each bootstrapping to the next one; nodes start from the end
\* of the chain, so every bootstrap endpoint is up when it is pinged.
InitChain ==
    /\ InitCommon
    /\ attached = [n \in Nodes |-> TRUE]
    /\ storage_full = [n \in Nodes |-> FALSE]
    /\ storage = [n \in Nodes |-> EmptyStorage]
    /\ bootstrap_nodes = ChainBootstrap

AllUp == \A n \in Nodes : phase[n] = "running"
EndpointsUp(n) == \A m \in Nodes : m > n => phase[m] # "new"

\* The steps of an operation when every request is answered.
QuietWire ==
    \/ \E i \in 1..alpha : TaskRegister(i)
    \/ \E i \in 1..alpha : TaskSend(i)
    \/ \E i \in 1..alpha : ~Launching /\ TaskReturn(i)
    \/ Collect
    \/ \E f \in network : ~Launching /\ HandleMessage(f)

NextChain ==
    \/ QuietWire
    \/ \E n \in Nodes : EndpointsUp(n) /\ BeginStart(n)
    \/ AllUp /\ BeginFindNode(1, NodeIdOf(NumNodes))
    \/ AllUp /\ BeginStore(3, ChainKey, "v1", 3600)
    \/ AllUp /\ BeginFindValue(4, ChainKey)

SpecChain == InitChain /\ [][NextChain]_vars

\* A star of StarSize nodes: node 1 is the bootstrap endpoint of the others.
\* The last node's DHT engine has no network protocol.  Node 2 already holds
\* a value under the short key, and its store may be over its cap.
\* Datagrams may be lost, requests may time out, node 1 may stop (no
\* operation begins on a stopped node, whose store is closed).  One node is
\* the client of a behaviour, and one of its operations goes to the network.
StarSize == 2
Star == 1..StarSize
Detached == NumNodes
Clients == {1, Detached}

Init ==
    /\ InitCommon
    /\ attached = [n \in Nodes |-> n # Detached]
    /\ storage_full \in {[n \in Nodes |-> FALSE], [n \in Nodes |-> n = 2]}
    /\ storage = [n \in Nodes |->
                    IF n = 2 THEN StoragePut(EmptyStorage, ShortKey, "v2", 3600, 0)
                    ELSE EmptyStorage]
    /\ bootstrap_nodes = [n \in Nodes |-> IF n > 1 /\ n \in Star THEN <<1>> ELSE <<>>]

Started == \A n \in Star : phase[n] # "new"

\* No client operation has sent a request yet.
NoNetOp == \A i \in 1..Len(hist) : hist[i].kind = "start" \/ hist[i].sent = 0

\* The operation would be answered without the network.
Offline(n, key) == ~attached[n] \/ StorageGet(storage[n], key, now) # NoValue

ClientIs(n) == \A i \in 1..Len(hist) : hist[i].kind = "start" \/ hist[i].node = n

Next ==
    \/ Wire
    \/ \E n \in Star : (\A m \in 1..(n - 1) : phase[m] # "new") /\ BeginStart(n)
    \/ \E key \in KeySet, ttl \in TtlSet :
          /\ Started /\ ClientIs(1) /\ phase[1] # "stopped"
          /\ NoNetOp
          /\ BeginStore(1, key, "v1", ttl)
    \/ \E key \in KeySet, value \in ValueSet, ttl \in TtlSet :
          /\ Started /\ ClientIs(Detached)
          /\ BeginStore(Detached, key, value, ttl)
    \/ \E n \in Clients, key \in KeySet :
          /\ Started /\ ClientIs(n) /\ phase[n] # "stopped"
          /\ Offline(n, key) \/ NoNetOp
          /\ BeginFindValue(n, key)
    \/ /\ Started /\ ClientIs(1) /\ phase[1] # "stopped"
       /\ NoNetOp
       /\ BeginFindNode(1, NodeIdOf(StarSize))
    \/ Started /\ ~Launching /\ ClientIs(1) /\ Stop(1)

Spec == Init /\ [][Next]_vars

\* Node 2 pings node 1 again and again while time passes between the pings;
\* no datagram is lost, a ping whose PING or PONG was refused times out.
InitRate ==
    /\ InitCommon
    /\ attached = [n \in Nodes |-> TRUE]
    /\ storage_full = [n \in Nodes |-> FALSE]
    /\ storage = [n \in Nodes |-> EmptyStorage]
    /\ bootstrap_nodes = NoBootstrap

NextRate ==
    \/ QuietWire
    \/ \E i \in 1..alpha : ~Launching /\ TaskExpire(i)
    \/ \E n \in {1, 2} : BeginStart(n)
    \/ phase[1] = "running" /\ phase[2] = "running" /\ BeginPing(2, 1)
    \/ \E d \in TickSteps : op.kind = "none" /\ Tick(d)

SpecRate == InitRate /\ [][NextRate]_vars

\* ------------------------------------------------ the rate limiter alone
\* One node's rate limiter under direct check_rate_limit calls: callers 1
\* and 2 send frames that carry their node IDs, caller 3 sends frames
\* without a node_id (the per-sender check is skipped for those) in bursts.
\* A caller with an ID makes one call or a burst of calls at one instant;
\* calls and bursts interleave freely with the clock.
AnonBurst == 61
NodeBurst == 19
MaxChecks == 5
MaxLimiterTime == 90
LimiterTickSteps == {30}
Callers == 1..3
AnonCaller == 3

CallerId(m) == IF m = AnonCaller THEN NoId ELSE NodeIdOf(m)

BurstSizes(m) == IF m = AnonCaller THEN {AnonBurst} ELSE {1, NodeBurst}

\* One call of check_rate_limit for a frame of caller m at time t: the
\* limiter and the receiver's counters for m afterwards.
BurstCall(s, m, t) ==
    LET rl == check_rate_limit(s.lim, CallerId(m), t)
    IN [lim |-> rl.lim, rx |-> RxSeen(s.rx, rl.ok, rl.why, t)]

\* n such calls in a row: the one-element set of the outcome.
RECURSIVE Burst(_, _, _, _)
Burst(s, m, t, n) ==
    IF n = 0 THEN {s} ELSE {BurstCall(s1, m, t) : s1 \in Burst(s, m, t, n - 1)}

InitLimiter ==
    /\ InitCommon
    /\ attached = [n \in Nodes |-> TRUE]
    /\ storage_full = [n \in Nodes |-> FALSE]
    /\ storage = [n \in Nodes |-> EmptyStorage]
    /\ bootstrap_nodes = NoBootstrap

\* rate_limiter.check_rate_limit(node_id), n times, for frames of caller m.
CheckCalls(m, n) ==
    /\ ops_done < MaxChecks
    /\ ops_done' = ops_done + 1
    /\ \E s \in Burst([lim |-> limiter[1], rx |-> rx[1][m]], m, now, n) :
          /\ limiter' = [limiter EXCEPT ![1] = s.lim]
          /\ rx' = [rx EXCEPT ![1][m] = s.rx]
    /\ UNCHANGED <<now, phase, attached, bootstrap_nodes, metrics, issued, loops, buckets, storage, storage_full,
                   pending, network, next_id, op, hist>>

LimiterTick(d) ==
    /\ now + d <= MaxLimiterTime
    /\ now' = now + d
    /\ UNCHANGED <<phase, attached, bootstrap_nodes, metrics, issued, loops, buckets, storage, storage_full,
                   pending, limiter, network, next_id, op, ops_done, hist, rx>>

NextLimiter ==
    \/ \E m \in Callers : \E n \in BurstSizes(m) : CheckCalls(m, n)
    \/ \E d \in LimiterTickSteps : LimiterTick(d)

SpecLimiter == InitLimiter /\ [][NextLimiter]_vars

\* ------------------------------------------------- the routing table alone
\* The routing table of node 1, built with buckets of capacity TableK, under
\* direct add_node, remove_node and find_closest_nodes calls, add_node calls
\* on its buckets and inbound PINGs, while the clock advances.  A peer handed to add_node was constructed now or at time 0
\* (a bootstrap stub is constructed before its PING and added after the
\* PONG).  op holds the last call and what it returned.
TableK == 2
MaxTableTime == 7202
TableTickSteps == {3601}
TableSelf == NodeIdOf(1)
TablePool == {StubId, TableSelf, 2, 8, 9, 12}
PingNames == {TableSelf, 8}
PingSource == 2
PingId == 1
FindTargets == {StubId, 9}
FindCounts == {1, TableK, K}

InitTable ==
    /\ InitCommon
    /\ attached = [n \in Nodes |-> TRUE]
    /\ storage_full = [n \in Nodes |-> FALSE]
    /\ storage = [n \in Nodes |-> EmptyStorage]
    /\ bootstrap_nodes = NoBootstrap

TableUnchanged ==
    UNCHANGED <<now, phase, attached, bootstrap_nodes, metrics, issued, loops, storage, storage_full, pending,
                limiter, network, next_id, ops_done, hist, rx>>

\* routing_table.add_node(Node(id, ...)) with the node's last_seen = seen.
TableAdd(id, seen) ==
    /\ LET r == add_node(TableSelf, TableK, buckets[1], Peer(id, 1, seen), now)
       IN /\ buckets' = [buckets EXCEPT ![1] = r.table]
          /\ op' = [IdleOp EXCEPT !.kind = "add", !.target = id, !.ttl = seen,
                                  !.result = BoolResult(r.ok)]
    /\ TableUnchanged

\* bucket.add_node(Node(id, ...)) on the bucket of the table the peer
\* belongs to.
TableBucketAdd(id, seen) ==
    /\ LET idx == get_bucket_index(TableSelf, id)
           r == KBucket_add_node(buckets[1][idx], Peer(id, 1, seen), TableK)
       IN /\ buckets' = [buckets EXCEPT ![1][idx] = r.nodes]
          /\ op' = [IdleOp EXCEPT !.kind = "bucket_add", !.target = id, !.ttl = seen,
                                  !.result = BoolResult(r.ok)]
    /\ TableUnchanged

\* _handle_request of a PING from address PingSource whose payload names id:
\* the table afterwards and the PONG sent back.
TablePing(id) ==
    /\ LET f == pack_message(id, "PING", PingId, [EmptyPayload EXCEPT !.node_id = id],
                             PingSource, 1)
           r == handle_request(1, TableK, f, buckets[1], storage[1], storage_full[1], now)
       IN /\ buckets' = [buckets EXCEPT ![1] = r.table]
          /\ storage' = [storage EXCEPT ![1] = r.storage]
          /\ network' = network \cup r.out
          /\ op' = [IdleOp EXCEPT !.kind = "ping_in", !.target = id]
    /\ UNCHANGED <<now, phase, attached, bootstrap_nodes, metrics, issued, loops, storage_full, pending,
                   limiter, next_id, ops_done, hist, rx>>

\* routing_table.remove_node(node)
TableRemove(id) ==
    /\ buckets' = [buckets EXCEPT ![1] = remove_node(TableSelf, @, id)]
    /\ op' = [IdleOp EXCEPT !.kind = "remove", !.target = id]
    /\ TableUnchanged

\* routing_table.find_closest_nodes(target, count)
TableFind(target, count) ==
    /\ op' = [IdleOp EXCEPT !.kind = "find_closest", !.target = target, !.idx = count,
                !.result = ListResult(find_closest_nodes(TableSelf, buckets[1], target, count))]
    /\ UNCHANGED buckets
    /\ TableUnchanged

TableTick(d) ==
    /\ now + d <= MaxTableTime
    /\ now' = now + d
    /\ UNCHANGED <<phase, attached, bootstrap_nodes, metrics, issued, loops, buckets, storage, storage_full,
                   pending, limiter, network, next_id, op, ops_done, hist, rx>>

NextTable ==
    \/ \E id \in TablePool, seen \in {0, now} : TableAdd(id, seen)
    \/ \E id \in TablePool \ {TableSelf}, seen \in {0, now} : TableBucketAdd(id, seen)
    \/ \E id \in PingNames : TablePing(id)
    \/ \E id \in TablePool : TableRemove(id)
    \/ \E target \in FindTargets, count \in FindCounts : TableFind(target, count)
    \/ \E d \in TableTickSteps : TableTick(d)

SpecTable == InitTable /\ [][NextTable]_vars

\* --------------------------------------------------- the global aggregation
\* PopularityExchanger.aggregate_global_ranking for one key: the local ranking
\* holds the key with a score or not, each queried seed's request returns a
\* ranking (with the key or without it) or raises, and the metrics collector
\* knows the key or not.  While an aggregation runs, op.candidates is the
\* local ranking's scores of the key, op.idx the number of seeds queried,
\* op.seen what gather returned so far, op.connected whether the key has
\* metrics; op.result is the consensus ranking's scores.
ScoreSet == {3, 7, 8, 9}
MaxSeeds == 3
SeedLimit == 10
LocalRankings == {<<>>} \cup {<<x>> : x \in ScoreSet}
SeedResults ==
    {[kind |-> "exc", scores |-> <<>>], [kind |-> "list", scores |-> <<>>]}
        \cup {[kind |-> "list", scores |-> <<x>>] : x \in ScoreSet}
RankingResult(l) == [NoResult EXCEPT !.kind = "ranking", !.nodes = l]

RECURSIVE InsertScore(_, _)
InsertScore(x, s) ==
    IF s = <<>> THEN <<x>>
    ELSE IF x < Head(s) THEN <<x>> \o s
    ELSE <<Head(s)>> \o InsertScore(x, Tail(s))

\* sorted(scores)
RECURSIVE sorted(_)
sorted(s) == IF s = <<>> THEN <<>> ELSE InsertScore(Head(s), sorted(Tail(s)))

\* sorted_scores[len(sorted_scores) // 2], with Python's indices from 0.
median_score(scores) == sorted(scores)[(Len(scores) \div 2) + 1]

\* The scores of the key in the results of gather that are lists.
RECURSIVE ReceivedScores(_)
ReceivedScores(results) ==
    IF results = <<>> THEN <<>>
    ELSE (IF Head(results).kind = "list" THEN Head(results).scores ELSE <<>>)
             \o ReceivedScores(Tail(results))

\* all_rankings[key]
all_rankings(local, results) == local \o ReceivedScores(results)

\* The consensus ranking: the key with its median score, if it has scores
\* and metrics.
consensus_ranking(local, results, has_metrics) ==
    IF all_rankings(local, results) # <<>> /\ has_metrics
    THEN <<median_score(all_rankings(local, results))>>
    ELSE <<>>

InitAggregate ==
    /\ InitCommon
    /\ attached = [n \in Nodes |-> TRUE]
    /\ storage_full = [n \in Nodes |-> FALSE]
    /\ storage = [n \in Nodes |-> EmptyStorage]
    /\ bootstrap_nodes = NoBootstrap

AggregateUnchanged ==
    UNCHANGED <<now, phase, attached, bootstrap_nodes, metrics, issued, loops, buckets, storage, storage_full,
                pending, limiter, network, next_id, ops_done, hist, rx>>

\* aggregate_global_ranking(local_rankings, seed_nodes) is called: the local
\* scores are recorded and the first seed_nodes[:10] are queried.
AggregateBegin(local, seeds, has_metrics) ==
    /\ op.pc \in {"idle", "done"}
    /\ op' = [IdleOp EXCEPT !.kind = "aggregate", !.pc = "ag_gather", !.candidates = local,
                            !.idx = Min(seeds, SeedLimit), !.connected = has_metrics]
    /\ AggregateUnchanged

\* One request_global_ranking call returns or raises.
SeedReturns(r) ==
    /\ op.pc = "ag_gather"
    /\ Len(op.seen) < op.idx
    /\ op' = [op EXCEPT !.seen = Append(@, r)]
    /\ AggregateUnchanged

\* gather has returned: the consensus is computed.
AggregateFinish ==
    /\ op.pc = "ag_gather"
    /\ Len(op.seen) = op.idx
    /\ op' = [op EXCEPT !.pc = "done",
                        !.result = RankingResult(
                            consensus_ranking(op.candidates, op.seen, op.connected))]
    /\ AggregateUnchanged

NextAggregate ==
    \/ \E local \in LocalRankings, seeds \in 0..MaxSeeds, has_metrics \in BOOLEAN :
           AggregateBegin(local, seeds, has_metrics)
    \/ \E r \in SeedResults : SeedReturns(r)
    \/ AggregateFinish

SpecAggregate == InitAggregate /\ [][NextAggregate]_vars

\* ------------------------------------------------ the popularity engine
\* The metrics collector, the ranker and the replicator of node 1, a single
\* node with an empty routing table whose store holds a value for the first
\* key and none for the second.  Requests, stores and engagements are recorded, received items are
\* merged, the metrics are ranked, swept and replicated, while the clock
\* advances.  op holds the last call and what it returned.  The first key
\* is requested in bursts and stored with a replication count the caller
\* chose, the second one is requested once at a time and stored through
\* BaseNode.store (replication count k).
MaxPopOps == 3
MaxPopTime == 2599200
PopTickSteps == {7200, 2592000}
PopTimes == {7200, 2592000, 7200 + 2592000}
FindBurst == 60
StoreCounts == {9, 12}
SocialCount == 100
RankLimits == {NoLimit, 0, 1}
Thresholds == {50000, 70000}
ThresholdPairs == {<<70000, 50000>>, <<50000, 30000>>}
sweep_days == 30
LongTtl == 8640000
OwnId == NodeIdOf(1)

\* The mapping a peer sends for a key: a metrics mapping with a replication
\* count, or one whose freshness and coverage are far out of range.
ReceivedMetrics(key) ==
    {[key |-> key, request_count |-> 5, request_rate |-> 200 * RateScale,
      replication_count |-> 15, freshness_score |-> 50 * Scale, audience_size |-> 70,
      social_engagements |-> 500, seed_coverage |-> 3 * Scale, first_seen |-> 28 * Day,
      last_request |-> 0, created_at |-> NoTime],
     [key |-> key, request_count |-> 0, request_rate |-> 0,
      replication_count |-> 0 - 4, freshness_score |-> 0 - Scale, audience_size |-> 0,
      social_engagements |-> 0, seed_coverage |-> 0 - Scale, first_seen |-> 0,
      last_request |-> 0, created_at |-> NoTime]}

InitPopularity ==
    /\ InitCommon
    /\ attached = [n \in Nodes |-> TRUE]
    /\ storage_full = [n \in Nodes |-> FALSE]
    /\ storage = [n \in Nodes |->
                     [k \in KeySet |-> IF n = 1 /\ k = ChainKey
                                       THEN [value |-> "v1", expires_at |-> LongTtl]
                                       ELSE NoEntry]]
    /\ bootstrap_nodes = NoBootstrap

PopUnchanged ==
    UNCHANGED <<now, phase, attached, bootstrap_nodes, buckets, storage_full, pending,
                limiter, network, next_id, hist, rx, loops>>

PopOp(kind, key) == [IdleOp EXCEPT !.kind = kind, !.key = key]

RECURSIVE RecordBurst(_, _, _, _, _)
RecordBurst(coll, key, node_id, t, n) ==
    IF n = 0 THEN {coll}
    ELSE {record_find_value(c, key, node_id, t) : c \in RecordBurst(coll, key, node_id, t, n - 1)}

\* n calls of metrics_collector.record_find_value(key, node_id) in a row.
PopFindValue(key, node_id, n) ==
    /\ ops_done < MaxPopOps
    /\ ops_done' = ops_done + 1
    /\ \E c \in RecordBurst(metrics, key, node_id, now, n) : metrics' = c
    /\ op' = [PopOp("record_find_value", key) EXCEPT !.idx = n]
    /\ UNCHANGED <<storage, issued>>
    /\ PopUnchanged

\* metrics_collector.record_store(key, replication_count)
PopStore(key, count) ==
    /\ ops_done < MaxPopOps
    /\ ops_done' = ops_done + 1
    /\ metrics' = record_store(metrics, key, count, now)
    /\ op' = [PopOp("record_store", key) EXCEPT !.idx = count]
    /\ UNCHANGED <<storage, issued>>
    /\ PopUnchanged

\* BaseNode.store after dht_protocol.store returned result: the replication
\* count it records is k for a store that succeeded, else 1.
store_replication(result) == IF result THEN K ELSE 1

PopNodeStore(key, result) ==
    /\ ops_done < MaxPopOps
    /\ ops_done' = ops_done + 1
    /\ metrics' = record_store(metrics, key, store_replication(result), now)
    /\ op' = [PopOp("store", key) EXCEPT !.result = BoolResult(result)]
    /\ UNCHANGED <<storage, issued>>
    /\ PopUnchanged

\* metrics_collector.record_social_engagement(key, count)
PopSocial(key, count) ==
    /\ ops_done < MaxPopOps
    /\ ops_done' = ops_done + 1
    /\ metrics' = record_social_engagement(metrics, key, count, now)
    /\ op' = [PopOp("record_social_engagement", key) EXCEPT !.idx = count]
    /\ UNCHANGED <<storage, issued>>
    /\ PopUnchanged

\* The merge of one item a neighbour sent, as exchange_top_items does it: a
\* known key's replication count is raised in place, an unknown key's
\* metrics are built from the mapping and returned, not kept.
PopExchange(data) ==
    /\ ops_done < MaxPopOps
    /\ ops_done' = ops_done + 1
    /\ IF data.key \in MetricKeys(metrics)
       THEN /\ metrics' = [metrics EXCEPT ![IndexOf(metrics, data.key)] =
                              update_replication(@, Max(@.replication_count,
                                                        data.replication_count))]
            /\ op' = [PopOp("exchange", data.key) EXCEPT !.candidates = metrics',
                                                         !.seen = <<data>>]
       ELSE /\ metrics' = metrics
            /\ op' = [PopOp("exchange", data.key) EXCEPT
                         !.candidates = Append(metrics, from_dict(data, now)),
                         !.seen = <<data>>]
    /\ UNCHANGED <<storage, issued>>
    /\ PopUnchanged

\* process_received_items of one item a neighbour sent in its
\* POPULARITY_EXCHANGE: a known key's replication count is raised in place,
\* an item of an unknown key is passed over.
PopInbound(data) ==
    /\ ops_done < MaxPopOps
    /\ ops_done' = ops_done + 1
    /\ metrics' = IF data.key \in MetricKeys(metrics)
                  THEN [metrics EXCEPT ![IndexOf(metrics, data.key)] =
                           update_replication(@, Max(@.replication_count,
                                                     data.replication_count))]
                  ELSE metrics
    /\ op' = [PopOp("process_received_items", data.key) EXCEPT !.candidates = metrics',
                                                              !.seen = <<data>>]
    /\ UNCHANGED <<storage, issued>>
    /\ PopUnchanged

\* ranker.rank_items(collector.get_all_metrics(), limit)
PopRank(limit) ==
    /\ op' = [PopOp("rank_items", <<>>) EXCEPT !.idx = limit,
                 !.result = RankingResult(rank_items(metrics, limit, now))]
    /\ UNCHANGED <<metrics, storage, issued, ops_done>>
    /\ PopUnchanged

\* ranker.get_popular_items(collector.get_all_metrics(), limit)
PopGetPopular(limit, threshold) ==
    /\ op' = [PopOp("get_popular_items", <<>>) EXCEPT !.idx = limit, !.ttl = threshold,
                 !.result = RankingResult(get_popular_items(metrics, limit, threshold, now))]
    /\ UNCHANGED <<metrics, storage, issued, ops_done>>
    /\ PopUnchanged

\* metrics_collector.update_all_freshness()
PopUpdateFreshness ==
    /\ metrics' = update_all_freshness(metrics, now)
    /\ metrics' # metrics
    /\ op' = PopOp("update_all_freshness", <<>>)
    /\ UNCHANGED <<storage, issued, ops_done>>
    /\ PopUnchanged

\* metrics_collector.cleanup_old_metrics(30)
PopCleanup ==
    /\ ops_done < MaxPopOps
    /\ ops_done' = ops_done + 1
    /\ metrics' = cleanup_old_metrics(metrics, sweep_days, now)
    /\ op' = [PopOp("cleanup_old_metrics", <<>>) EXCEPT !.candidates = metrics]
    /\ UNCHANGED <<storage, issued>>
    /\ PopUnchanged

\* replicator.replicate_popular_items(ranked_items, threshold) on the items
\* that rank_items gives for the collector's metrics.
PopReplicate(threshold) ==
    /\ ops_done < MaxPopOps
    /\ ops_done' = ops_done + 1
    /\ LET ranked_items == rank_items(metrics, PopularLimit, now)
           r == replicate_popular_items(ranked_items, threshold, storage[1],
                                        storage_full[1], now)
       IN /\ storage' = [storage EXCEPT ![1] = r.storage]
          /\ issued' = issued \o r.calls
          /\ op' = [PopOp("replicate_popular_items", <<>>) EXCEPT !.ttl = threshold,
                       !.candidates = ranked_items, !.dispatched = r.calls,
                       !.seen = r.results]
    /\ UNCHANGED metrics
    /\ PopUnchanged

\* _update_popularity_rankings under the configured thresholds.
PopUpdateRankings(popularity_threshold, active_threshold) ==
    /\ ops_done < MaxPopOps
    /\ ops_done' = ops_done + 1
    /\ LET r == update_popularity_rankings(metrics, popularity_threshold, active_threshold,
                                           storage[1], storage_full[1], now)
       IN /\ storage' = [storage EXCEPT ![1] = r.storage]
          /\ issued' = issued \o r.calls
          /\ op' = [PopOp("update_popularity_rankings", <<>>) EXCEPT
                       !.ttl = popularity_threshold, !.idx = active_threshold,
                       !.candidates = r.ranked, !.closest = r.extended,
                       !.dispatched = r.calls, !.seen = r.results]
    /\ UNCHANGED metrics
    /\ PopUnchanged

\* The clock advances by two hours or by thirty days, once each.
PopTick(d) ==
    /\ now + d \in PopTimes
    /\ now + d <= MaxPopTime
    /\ now' = now + d
    /\ op' = PopOp("sleep", <<>>)
    /\ UNCHANGED <<phase, attached, bootstrap_nodes, buckets, storage, storage_full,
                   pending, limiter, network, next_id, ops_done, hist, rx,
                   metrics, issued, loops>>

NextPopularity ==
    \/ PopFindValue(ChainKey, OwnId, FindBurst)
    \/ PopFindValue(ShortKey, OwnId, 1)
    \/ \E count \in StoreCounts : PopStore(ChainKey, count)
    \/ \E result \in BOOLEAN : PopNodeStore(ShortKey, result)
    \/ PopSocial(ChainKey, SocialCount)
    \/ \E data \in ReceivedMetrics(ShortKey) : PopExchange(data)
    \/ \E data \in ReceivedMetrics(ShortKey) : PopInbound(data)
    \/ \E limit \in RankLimits : PopRank(limit)
    \/ \E threshold \in Thresholds : PopGetPopular(PopularLimit, threshold)
    \/ PopUpdateFreshness
    \/ PopCleanup
    \/ \E threshold \in Thresholds : PopReplicate(threshold)
    \/ \E pair \in ThresholdPairs : PopUpdateRankings(pair[1], pair[2])
    \/ \E d \in PopTickSteps : PopTick(d)

SpecPopularity == InitPopularity /\ [][NextPopularity]_vars

\* ---- freshness of one metrics object over time ----
\* `metrics` holds one PopularityMetrics object, made by the collector
\* (record_find_value) or by from_dict from a received mapping that carries
\* created_at; the clock advances and update_freshness() is applied to it.

FreshDays == 30
CreatedAts == {0, 1800}
FreshTimes ==
    {1799, 1800, Hour - 1, Hour, Hour + 1, 2 * Hour, 12 * Hour, Day - 1, Day, Day + 1,
     Day + 1800}
        \cup {d * Day : d \in 1..FreshDays} \cup {d * Day + 1800 : d \in 1..FreshDays}

\* The mapping a peer sends for a key, with the data's creation time.
ReceivedFresh(key, first_seen, created_at) ==
    [key |-> key, request_count |-> 1, request_rate |-> RateScale,
     replication_count |-> 1, freshness_score |-> Scale, audience_size |-> 1,
     social_engagements |-> 0, seed_coverage |-> 0, first_seen |-> first_seen,
     last_request |-> first_seen, created_at |-> created_at]

\* The age update_freshness() takes for a metrics object at time t.
AgeOf(m, t) ==
    IF m.created_at # NoTime /\ m.created_at # 0 THEN t - m.created_at
    ELSE t - m.first_seen

InitFreshness ==
    /\ InitCommon
    /\ attached = [n \in Nodes |-> FALSE]
    /\ storage_full = [n \in Nodes |-> FALSE]
    /\ storage = [n \in Nodes |-> [k \in KeySet |-> NoEntry]]
    /\ bootstrap_nodes = NoBootstrap

FreshUnchanged ==
    UNCHANGED <<phase, attached, bootstrap_nodes, buckets, storage, storage_full, pending,
                limiter, network, next_id, ops_done, hist, rx, issued, loops>>

\* metrics_collector.record_find_value(key, node_id) for a key not yet seen.
FreshRecord ==
    /\ metrics = <<>>
    /\ now <= 1800
    /\ metrics' = record_find_value(metrics, ChainKey, OwnId, now)
    /\ op' = PopOp("record_find_value", ChainKey)
    /\ UNCHANGED now
    /\ FreshUnchanged

\* PopularityMetrics.from_dict(received_metrics) for a key not yet seen.
FreshReceive(created_at) ==
    /\ metrics = <<>>
    /\ now < Hour
    /\ created_at <= now
    /\ metrics' = <<from_dict(ReceivedFresh(ChainKey, now, created_at), now)>>
    /\ op' = PopOp("from_dict", ChainKey)
    /\ UNCHANGED now
    /\ FreshUnchanged

\* update_freshness() on the object.
FreshUpdate ==
    /\ metrics # <<>>
    /\ metrics' = [i \in 1..Len(metrics) |-> update_freshness(metrics[i], now)]
    /\ op' = [PopOp("update_freshness", ChainKey) EXCEPT !.ttl = now]
    /\ op' # op
    /\ UNCHANGED now
    /\ FreshUnchanged

\* The clock advances to a later time.
FreshSleep ==
    /\ \E t \in FreshTimes : t > now /\ now' = t
    /\ op' = PopOp("sleep", <<>>)
    /\ UNCHANGED metrics
    /\ FreshUnchanged

NextFreshness ==
    \/ FreshRecord
    \/ \E created_at \in CreatedAts : FreshReceive(created_at)
    \/ FreshUpdate
    \/ FreshSleep

SpecFreshness == InitFreshness /\ [][NextFreshness]_vars

\* ---- the background loops of a seed node ----
InitLoops ==
    /\ InitCommon
    /\ attached = [n \in Nodes |-> TRUE]
    /\ storage_full = [n \in Nodes |-> FALSE]
    /\ storage = [n \in Nodes |-> [k \in KeySet |-> NoEntry]]
    /\ bootstrap_nodes = NoBootstrap

LoopsUnchanged ==
    UNCHANGED <<now, attached, bootstrap_nodes, buckets, storage, storage_full, pending,
                limiter, network, next_id, op, ops_done, hist, rx, issued>>

\* SeedNode.start: is_running = True, the transport is up, no bootstrap
\* endpoint to contact, and the three tasks are created.
LoopsStart ==
    /\ phase[1] = "new"
    /\ phase' = [phase EXCEPT ![1] = "running"]
    /\ loops' = [l \in LoopNames |-> [loops[l] EXCEPT !.pc = "while"]]
    /\ UNCHANGED metrics
    /\ LoopsUnchanged

\* BaseNode.stop: is_running = False.
LoopsStop ==
    /\ phase[1] = "running"
    /\ phase' = [phase EXCEPT ![1] = "stopped"]
    /\ UNCHANGED <<loops, metrics>>
    /\ LoopsUnchanged

\* while self.is_running:
LoopTest(l) ==
    /\ loops[l].pc = "while"
    /\ loops' = [loops EXCEPT ![l] =
                    IF phase[1] = "running" THEN [@ EXCEPT !.pc = "body", !.step = 1]
                    ELSE [@ EXCEPT !.pc = "exited"]]
    /\ UNCHANGED <<phase, metrics>>
    /\ LoopsUnchanged

\* A periodic step whose interval has not elapsed is passed over.
LoopSkip(l) ==
    /\ loops[l].pc = "body"
    /\ LoopSteps(l)[loops[l].step] \in Periodic
    /\ loops' = [loops EXCEPT ![l] = AfterStep(@, l)]
    /\ UNCHANGED <<phase, metrics>>
    /\ LoopsUnchanged

\* The step completes.
LoopStep(l) ==
    /\ loops[l].pc = "body"
    /\ LET name == LoopSteps(l)[loops[l].step]
       IN metrics' = IF name = "update_all_freshness" THEN update_all_freshness(metrics, now)
                     ELSE IF name = "cleanup_old_metrics"
                     THEN cleanup_old_metrics(metrics, sweep_days, now)
                     ELSE metrics
    /\ loops' = [loops EXCEPT ![l] = AfterStep(@, l)]
    /\ UNCHANGED phase
    /\ LoopsUnchanged

\* The step raises an Exception.
LoopRaise(l) ==
    /\ loops[l].pc = "body"
    /\ loops' = [loops EXCEPT ![l] = OnException(@)]
    /\ UNCHANGED <<phase, metrics>>
    /\ LoopsUnchanged

\* except Exception as e: self.logger.error(...)
LoopLog(l) ==
    /\ loops[l].pc = "except"
    /\ loops' = [loops EXCEPT ![l] = [@ EXCEPT !.pc = "except_sleep"]]
    /\ UNCHANGED <<phase, metrics>>
    /\ LoopsUnchanged

\* asyncio.sleep returns, in the try block or in the except clause.
LoopWake(l) ==
    /\ loops[l].pc \in {"sleep", "except_sleep"}
    /\ loops' = [loops EXCEPT ![l] = [@ EXCEPT !.pc = "while"]]
    /\ UNCHANGED <<phase, metrics>>
    /\ LoopsUnchanged

NextLoops ==
    \/ LoopsStart
    \/ LoopsStop
    \/ \E l \in LoopNames : LoopTest(l)
    \/ \E l \in LoopNames : LoopSkip(l)
    \/ \E l \in LoopNames : LoopStep(l)
    \/ \E l \in LoopNames : LoopRaise(l)
    \/ \E l \in LoopNames : LoopLog(l)
    \/ \E l \in LoopNames : LoopWake(l)

SpecLoops == InitLoops /\ [][NextLoops]_vars

\* The event loop runs every task that is ready, and every sleep returns.
FairLoops ==
    \A l \in LoopNames :
        /\ WF_vars(LoopTest(l))
        /\ WF_vars(LoopStep(l) \/ LoopSkip(l) \/ LoopRaise(l))
        /\ WF_vars(LoopLog(l))
        /\ WF_vars(LoopWake(l))

SpecLoopsFair == SpecLoops /\ FairLoops

\* ---- frames of a response type that answer no request ----
\* Nodes 1 and 2 run and ping each other; a third party at address 3 sends
\* them frames of the six response types under ids of its choosing.
MaxStray == 2
MaxStrayOps == 2
StraySource == 3
StrayIds == {0, 1}
ResponseTypes == ReplyTypes \cup {"POPULARITY_EXCHANGE_RESP", "GLOBAL_RANKING_RESP"}

StrayPayload ==
    [EmptyPayload EXCEPT !.node_id = NodeIdOf(StraySource), !.key = ShortKey,
                         !.value = "v2", !.ttl = 3600, !.found = TRUE, !.success = TRUE]

InitStray ==
    /\ InitCommon
    /\ attached = [n \in Nodes |-> TRUE]
    /\ storage_full = [n \in Nodes |-> FALSE]
    /\ storage = [n \in Nodes |-> EmptyStorage]
    /\ bootstrap_nodes = NoBootstrap

\* A datagram from the third party reaches the network.
Inject(type, id, dst) ==
    /\ phase[dst] = "running"
    /\ rx[dst][StraySource].total + Cardinality({f \in network : f.src = StraySource})
           < MaxStray
    /\ network' = network \cup
           {pack_message(NodeIdOf(StraySource), type, id, StrayPayload, StraySource, dst)}
    /\ UNCHANGED <<now, phase, attached, bootstrap_nodes, metrics, issued, loops, buckets,
                   storage, storage_full, pending, limiter, next_id, op, ops_done, hist, rx>>

NextStray ==
    \/ QuietWire
    \/ \E n \in {1, 2} : BeginStart(n)
    \/ \E n \in {1, 2} :
          /\ phase[1] = "running" /\ phase[2] = "running"
          /\ ops_done < MaxStrayOps
          /\ BeginPing(n, 3 - n)
    \/ \E type \in ResponseTypes, id \in StrayIds, dst \in {1, 2} : Inject(type, id, dst)

SpecStray == InitStray /\ [][NextStray]_vars

\* ---- a lookup that sees more than alpha peers ----
\* The five nodes run without bootstrap endpoints.  Node 1 pings node 2, then
\* nodes 2..5 ping node 1 in turn, which puts each of them into node 1's
\* table; node 2 looks up a target whenever it is idle.
MaxLookupOps == 6
LookupClient == 2
LookupTargets == {NodeIdOf(5), NodeIdOf(4), 7}

InitLookup ==
    /\ InitCommon
    /\ attached = [n \in Nodes |-> TRUE]
    /\ storage_full = [n \in Nodes |-> FALSE]
    /\ storage = [n \in Nodes |-> EmptyStorage]
    /\ bootstrap_nodes = NoBootstrap

Known(n, m) == NodeIdOf(m) \in PeerIds(get_all_nodes(buckets[n]))

\* DHTProtocol.find_node(target_id) on the client.
LookupFindNode(n, target) ==
    /\ op.kind = "none"
    /\ network = {}
    /\ ops_done < MaxLookupOps
    /\ \A i \in 1..Len(hist) : hist[i].kind # "find_node"
    /\ ops_done' = ops_done + 1
    /\ Settle(FindNodeStart([NewOp("find_node", n) EXCEPT !.target = target], buckets[n]))
    /\ UNCHANGED <<now, phase, attached, bootstrap_nodes, metrics, issued, loops, buckets,
                   storage, storage_full, pending, limiter, network, next_id, rx>>

NextLookup ==
    \/ QuietWire
    \/ \E n \in Nodes : (\A m \in 1..(n - 1) : phase[m] # "new") /\ BeginStart(n)
    \/ AllUp /\ ~Known(LookupClient, 1) /\ ops_done < MaxLookupOps
          /\ BeginPing(1, LookupClient)
    \/ \E m \in Nodes \ {1} :
          /\ AllUp /\ Known(LookupClient, 1) /\ ~Known(1, m)
          /\ \A j \in 2..(m - 1) : Known(1, j)
          /\ ops_done < MaxLookupOps
          /\ BeginPing(m, 1)
    \/ \E target \in LookupTargets :
          AllUp /\ Known(LookupClient, 1) /\ LookupFindNode(LookupClient, target)

SpecLookup == InitLookup /\ [][NextLookup]_vars

\* ---- lookups over a wire that loses datagrams ----
\* The topology of SpecLookup; once it is set up the client runs one lookup,
\* find_node or find_value, during which any datagram may be lost and any
\* call whose reply has not arrived may time out.
InLookup == op.kind \in {"find_node", "find_value"}

\* DHTProtocol.find_value(key) on the client.
SearchFindValue(n, key) ==
    /\ op.kind = "none"
    /\ network = {}
    /\ ops_done < MaxLookupOps
    /\ \A i \in 1..Len(hist) : hist[i].kind \notin {"find_node", "find_value"}
    /\ ops_done' = ops_done + 1
    /\ Settle(FindValueStart([NewOp("find_value", n) EXCEPT !.key = key], storage[n], now))
    /\ UNCHANGED <<now, phase, attached, bootstrap_nodes, metrics, issued, loops, buckets,
                   storage, storage_full, pending, limiter, network, next_id, rx>>

NextSearch ==
    \/ NextLookup
    \/ \E f \in network : InLookup /\ ~Launching /\ Drop(f)
    \/ \E i \in 1..alpha : InLookup /\ ~Launching /\ TaskExpire(i)
    \/ AllUp /\ Known(LookupClient, 1) /\ SearchFindValue(LookupClient, ShortKey)

SpecSearch == InitLookup /\ [][NextSearch]_vars

\* The event loop runs every ready task, every wait_for either gets its
\* reply or times out, and every datagram on the wire is delivered or lost.
\* The last two conjuncts are weak fairness of Collect and of Deliver with
\* their enabling conditions written out.
CollectReady == op.kind # "none" /\ AllReturned(op)

Deliver == \E f \in network : ~Launching /\ (HandleMessage(f) \/ (InLookup /\ Drop(f)))

FairSearch ==
    /\ WF_vars(\E i \in 1..alpha : TaskRegister(i))
    /\ WF_vars(\E i \in 1..alpha : TaskSend(i))
    /\ WF_vars(\E i \in 1..alpha : ~Launching /\ TaskReturn(i))
    /\ WF_vars(\E i \in 1..alpha : InLookup /\ ~Launching /\ TaskExpire(i))
    /\ ([]<>~CollectReady \/ []<><<Collect>>_vars)
    /\ ([]<>(network = {} \/ Launching) \/ []<><<Deliver>>_vars)

SpecSearchFair == SpecSearch /\ FairSearch

\* ---- STORE and FIND_VALUE requests arriving at one node ----
\* Node 1 runs; node 2 sends it STORE and FIND_VALUE requests, one at a time.
\* Other data fills node 1's store up to its cap, and is removed again; the
\* clock may advance by the ttl of the stored values.
\* hist logs every request handled: the frame, whether the rate limiter let
\* it through, whether the store was over its cap, the datagrams sent, and
\* the store before and after.
MaxInbound == 4
MaxStoreInTime == 3600
StoreInTickSteps == {3600}
InboundSource == 2

InitStoreIn ==
    /\ InitCommon
    /\ attached = [n \in Nodes |-> TRUE]
    /\ storage_full = [n \in Nodes |-> FALSE]
    /\ storage = [n \in Nodes |-> EmptyStorage]
    /\ bootstrap_nodes = NoBootstrap

InboundPayload(type, key, value, ttl) ==
    IF type = "STORE" THEN [EmptyPayload EXCEPT !.key = key, !.value = value, !.ttl = ttl]
    ELSE IF type = "PING" THEN [EmptyPayload EXCEPT !.node_id = NodeIdOf(InboundSource)]
    ELSE [EmptyPayload EXCEPT !.key = key]

\* _handle_message of a request frame from node 2.
Inbound(type, key, value, ttl) ==
    /\ phase[1] = "running"
    /\ op.kind = "none"
    /\ ops_done < MaxInbound
    /\ ops_done' = ops_done + 1
    /\ LET f == pack_message(NodeIdOf(InboundSource), type, next_id,
                             InboundPayload(type, key, value, ttl), InboundSource, 1)
           rl == check_rate_limit(limiter[1], f.node_id, now)
           r == IF rl.ok /\ f.id \notin pending[1]
                THEN handle_request(1, K, f, buckets[1], storage[1], storage_full[1], now)
                ELSE [table |-> buckets[1], storage |-> storage[1], out |-> {}]
       IN /\ limiter' = [limiter EXCEPT ![1] = rl.lim]
          /\ rx' = [rx EXCEPT ![1][f.src] = RxSeen(@, rl.ok, rl.why, now)]
          /\ pending' = [pending EXCEPT ![1] = @ \ {f.id}]
          /\ buckets' = [buckets EXCEPT ![1] = r.table]
          /\ storage' = [storage EXCEPT ![1] = r.storage]
          /\ network' = network \cup r.out
          /\ next_id' = next_id + 1
          /\ hist' = Append(hist, [kind |-> "inbound", frame |-> f, accepted |-> rl.ok,
                                   full |-> storage_full[1], sent |-> r.out,
                                   before |-> storage[1], after |-> r.storage, at |-> now])
    /\ UNCHANGED <<now, phase, attached, bootstrap_nodes, metrics, issued, loops,
                   storage_full, op>>

\* Other data brings the store over its cap, or is removed from it.
StoreCap(full) ==
    /\ phase[1] = "running"
    /\ storage_full[1] # full
    /\ storage_full' = [storage_full EXCEPT ![1] = full]
    /\ UNCHANGED <<now, phase, attached, bootstrap_nodes, metrics, issued, loops, buckets,
                   storage, pending, limiter, network, next_id, op, ops_done, hist, rx>>

StoreInTick(d) ==
    /\ phase[1] = "running"
    /\ now + d <= MaxStoreInTime
    /\ now' = now + d
    /\ UNCHANGED <<phase, attached, bootstrap_nodes, metrics, issued, loops, buckets, storage,
                   storage_full, pending, limiter, network, next_id, op, ops_done, hist, rx>>

NextStoreIn ==
    \/ BeginStart(1)
    \/ \E d \in StoreInTickSteps : StoreInTick(d)
    \/ \E key \in KeySet, value \in ValueSet, ttl \in TtlSet : Inbound("STORE", key, value, ttl)
    \/ \E key \in KeySet : Inbound("FIND_VALUE", key, NoValue, 0)
    \/ \E full \in BOOLEAN : StoreCap(full)

SpecStoreIn == InitStoreIn /\ [][NextStoreIn]_vars

\* ---- two peers in contact over time ----
\* Node 1 runs; node 2 bootstraps to it, which puts node 2 into node 1's
\* table under its own ID and node 1 into node 2's table under the stub ID.
\* Either node then pings the other, looks a node or a value up or stores a
\* value, while the clock advances between operations; datagrams may be
\* lost, and a request neither answered nor in flight times out.
MaxContactOps == 2
ContactNodes == {1, 2}

InitContact ==
    /\ InitCommon
    /\ attached = [n \in Nodes |-> TRUE]
    /\ storage_full = [n \in Nodes |-> FALSE]
    /\ storage = [n \in Nodes |-> EmptyStorage]
    /\ bootstrap_nodes = [n \in Nodes |-> IF n = 2 THEN <<1>> ELSE <<>>]

BothUp == \A n \in ContactNodes : phase[n] = "running"

NextContact ==
    \/ QuietWire
    \/ \E f \in network : ~Launching /\ Drop(f)
    \/ \E i \in 1..alpha : ~Launching /\ TaskExpire(i)
    \/ \E n \in ContactNodes : (n = 2 => phase[1] = "running") /\ BeginStart(n)
    \/ \E d \in TickSteps : op.kind = "none" /\ network = {} /\ Tick(d)
    \/ \E n \in ContactNodes :
          BothUp /\ ops_done < MaxContactOps /\ BeginPing(n, 3 - n)
    \/ \E n \in ContactNodes :
          BothUp /\ ops_done < MaxContactOps /\ BeginFindNode(n, NodeIdOf(3 - n))
    \/ \E n \in ContactNodes :
          BothUp /\ ops_done < MaxContactOps /\ BeginFindValue(n, ShortKey)
    \/ \E n \in ContactNodes :
          BothUp /\ ops_done < MaxContactOps /\ BeginStore(n, ShortKey, "v1", 3600)

SpecContact == InitContact /\ [][NextContact]_vars

\* ---- replies that meet a full rate-limit window ----
\* Node 2, bootstrapped from node 1, pings node 1 and looks a key up.  A
\* third party sends node 2 datagrams that answer no request, some without a
\* node_id and some carrying node 1's ID, which fill the global window and
\* node 1's window in node 2's rate limiter.
MaxReplyOps == 2
MaxFlood == 101
FloodIds == {NoId, NodeIdOf(1)}

Flood(node_id) ==
    /\ phase[2] = "running"
    /\ op.kind = "none"
    /\ network = {}
    /\ rx[2][StraySource].total < MaxFlood
    /\ network' = {pack_message(node_id, "PONG", 0, EmptyPayload, StraySource, 2)}
    /\ UNCHANGED <<now, phase, attached, bootstrap_nodes, metrics, issued, loops, buckets,
                   storage, storage_full, pending, limiter, next_id, op, ops_done, hist, rx>>

NextReply ==
    \/ QuietWire
    \/ \E i \in 1..alpha : ~Launching /\ TaskExpire(i)
    \/ \E n \in ContactNodes : (n = 2 => phase[1] = "running") /\ BeginStart(n)
    \/ \E node_id \in FloodIds : Flood(node_id)
    \/ BothUp /\ ops_done < MaxReplyOps /\ BeginPing(2, 1)
    \/ BothUp /\ ops_done < MaxReplyOps /\ BeginFindValue(2, ShortKey)

SpecReply == InitContact /\ [][NextReply]_vars

\* ---- frames that carry the id of an outstanding request ----
\* Node 2, bootstrapped from node 1, pings node 1 and stores a value while a
\* third party sends it requests and replies whose ids are those of node 2's
\* own calls.
MaxCollide == 2
CollideIds == 2..5
CollideTypes == {"PING", "STORE", "PONG", "STORE_RESP"}

\* A datagram from the third party reaches the network.
Collide(type, id) ==
    /\ phase[2] = "running"
    /\ rx[2][StraySource].total + Cardinality({f \in network : f.src = StraySource})
           < MaxCollide
    /\ network' = network \cup
           {pack_message(NodeIdOf(StraySource), type, id, StrayPayload, StraySource, 2)}
    /\ UNCHANGED <<now, phase, attached, bootstrap_nodes, metrics, issued, loops, buckets,
                   storage, storage_full, pending, limiter, next_id, op, ops_done, hist, rx>>

NextCollide ==
    \/ QuietWire
    \/ \E n \in ContactNodes : (n = 2 => phase[1] = "running") /\ BeginStart(n)
    \/ \E type \in CollideTypes, id \in CollideIds : Collide(type, id)
    \/ BothUp /\ ops_done < MaxCollide /\ BeginPing(2, 1)
    \/ BothUp /\ ops_done < MaxCollide /\ BeginStore(2, ShortKey, "v1", 3600)

SpecCollide == InitContact /\ [][NextCollide]_vars

\* ---- the popularity loop over time ----
\* Node 1 runs with the configured thresholds 7.0 and 5.0 and an empty store.
\* A PING of node 2 gives it a neighbour, find_value calls give it metrics,
\* and its popularity loop goes through its ticks; a sleep returns once the
\* clock is at one of TickTimes.
MaxTickOps == 3
MaxTickTime == 2599200
TickTimes == {60, 2 * Hour, 30 * Day + 2 * Hour}
TickSleeps == {60, 2 * Hour - 60, 30 * Day}

InitTicks ==
    /\ InitCommon
    /\ attached = [n \in Nodes |-> TRUE]
    /\ storage_full = [n \in Nodes |-> FALSE]
    /\ storage = [n \in Nodes |-> EmptyStorage]
    /\ bootstrap_nodes = NoBootstrap

TicksUnchanged ==
    UNCHANGED <<phase, attached, bootstrap_nodes, buckets, storage_full, pending, limiter,
                network, next_id, op, hist, rx>>

\* BaseNode.find_value(key) up to the collection of the request's metric.
TickRecord(key) ==
    /\ phase[1] = "running"
    /\ ops_done < MaxTickOps
    /\ ops_done' = ops_done + 1
    /\ metrics' = record_find_value(metrics, key, OwnId, now)
    /\ UNCHANGED <<now, storage, issued, loops>>
    /\ TicksUnchanged

\* exchange_top_items with neighbours to contact builds its calls from
\* network_protocol.exchange_popularity, a method NetworkProtocol does not
\* define: the attribute lookup raises.
exchange_raises(coll, table) == coll # <<>> /\ get_all_nodes(table) # <<>>

\* A step of the popularity loop's try block completes.
TickStep ==
    /\ loops["popularity"].pc = "body"
    /\ LET name == LoopSteps("popularity")[loops["popularity"].step]
           r == update_popularity_rankings(metrics, 70000, 50000, storage[1],
                                           storage_full[1], now)
       IN /\ name = "exchange_popularity" => ~exchange_raises(metrics, buckets[1])
          /\ metrics' = IF name = "update_all_freshness"
                        THEN update_all_freshness(metrics, now)
                        ELSE IF name = "cleanup_old_metrics"
                        THEN cleanup_old_metrics(metrics, sweep_days, now)
                        ELSE metrics
          /\ storage' = IF name = "update_popularity_rankings"
                        THEN [storage EXCEPT ![1] = r.storage] ELSE storage
          /\ issued' = IF name = "update_popularity_rankings"
                       THEN issued \o r.calls ELSE issued
    /\ loops' = [loops EXCEPT !["popularity"] = AfterStep(@, "popularity")]
    /\ UNCHANGED <<now, ops_done>>
    /\ TicksUnchanged

\* _exchange_popularity raises.
TickRaise ==
    /\ loops["popularity"].pc = "body"
    /\ LoopSteps("popularity")[loops["popularity"].step] = "exchange_popularity"
    /\ exchange_raises(metrics, buckets[1])
    /\ LoopRaise("popularity")

\* asyncio.sleep(60) returns, in the try block or in the except clause.
TickWake(d) ==
    /\ loops["popularity"].pc \in {"sleep", "except_sleep"}
    /\ now + d \in TickTimes
    /\ now + d <= MaxTickTime
    /\ now' = now + d
    /\ loops' = [loops EXCEPT !["popularity"] = [@ EXCEPT !.pc = "while"]]
    /\ UNCHANGED <<metrics, storage, issued, ops_done>>
    /\ TicksUnchanged

NextTicks ==
    \/ LoopsStart
    \/ buckets[1] = EmptyTable /\ ops_done < MaxTickOps /\ Inbound("PING", <<>>, NoValue, 0)
    \/ \E key \in KeySet : TickRecord(key)
    \/ LoopTest("popularity")
    \/ LoopSkip("popularity")
    \/ TickStep
    \/ TickRaise
    \/ LoopLog("popularity")
    \/ \E d \in TickSleeps : TickWake(d)

SpecTicks == InitTicks /\ [][NextTicks]_vars

\* -------------------------------------------------------------- properties

Stores == {i \in 1..Len(hist) : hist[i].kind = "store"}
FindValues == {i \in 1..Len(hist) : hist[i].kind = "find_value"}

\* C1: store on a node that has not stopped returns true whenever its local
\* put succeeded, also when every remote STORE timed out or reported
\* failure.
C1_StoreTrueAfterLocalPut ==
    \A i \in Stores :
        (hist[i].outcome = "ok" /\ phase[hist[i].node] # "stopped")
        => hist[i].result = BoolResult(TRUE)

\* A store of a running node whose local put took effect and whose STOREs
\* all failed or timed out.
C1_Witness ==
    \E i \in Stores :
        /\ hist[i].outcome = "ok"
        /\ phase[hist[i].node] = "running"
        /\ hist[i].dispatched # <<>>
        /\ hist[i].sent > Len(hist[i].dispatched)
        /\ StorageGet(storage[hist[i].node], hist[i].key, now) = hist[i].value
        /\ hist[i].result = BoolResult(FALSE)

\* C2: a store(k, v, ttl) with ttl > 0 followed by find_value(k) on the same
\* node returns exactly v, whatever the routing table holds and whatever
\* the peers did, and the find_value sends no request.
C2_LocalRoundTrip ==
    \A i \in Stores :
        (/\ i < Len(hist)
         /\ hist[i].outcome = "ok"
         /\ hist[i].ttl > 0
         /\ hist[i + 1].kind = "find_value"
         /\ hist[i + 1].node = hist[i].node
         /\ hist[i + 1].key = hist[i].key)
        => /\ hist[i + 1].outcome = "ok"
           /\ hist[i + 1].result = BytesResult(hist[i].value)
           /\ hist[i + 1].sent = 0

\* The round trip on node 1 after a store that went to the network.
C2_Witness ==
    \E i \in Stores :
        /\ i < Len(hist)
        /\ hist[i].node = 1
        /\ hist[i].dispatched # <<>>
        /\ hist[i + 1].kind = "find_value"
        /\ hist[i + 1].key = hist[i].key
        /\ hist[i + 1].result = BytesResult(hist[i].value)

C4_TwoNodeStoreFind ==
    \A i \in Stores : \A j \in FindValues :
        (/\ i < j
         /\ hist[i].node = 3
         /\ hist[i].outcome = "ok"
         /\ hist[j].node = 4
         /\ hist[j].key = hist[i].key
         /\ \E s \in 1..Len(hist) : /\ hist[s].kind = "start"
                                    /\ hist[s].node = 3
                                    /\ hist[s].result = BoolResult(TRUE))
        => hist[j].outcome = "ok" /\ hist[j].result = BytesResult(hist[i].value)

\* Node 3, bootstrapped, stored and sent STORE to node 4's address; node 4
\* then found the value.
C4_Witness ==
    \E i \in Stores : \E j \in FindValues :
        /\ i < j
        /\ hist[i].node = 3
        /\ \E d \in 1..Len(hist[i].dispatched) : hist[i].dispatched[d].address = 4
        /\ hist[j].node = 4
        /\ hist[j].result = BytesResult(hist[i].value)
        /\ \E s \in 1..Len(hist) : /\ hist[s].kind = "start"
                                    /\ hist[s].node = 3
                                    /\ hist[s].result = BoolResult(TRUE)

\* C5: in the chain, find_node of the last node's ID issued at the first
\* node returns a list that contains the last node, within alpha rounds.
C5_ChainDiscovery ==
    \A i \in 1..Len(hist) :
        (hist[i].kind = "find_node" /\ hist[i].node = 1
            /\ hist[i].target = NodeIdOf(NumNodes))
        => /\ NodeIdOf(NumNodes) \in PeerIds(hist[i].result.nodes)
           /\ hist[i].rounds <= alpha

\* Every node of the chain is up and bootstrapped, and the first node's
\* lookup of the last node's ID asked its peers and returned.
C5_Witness ==
    /\ \A n \in Nodes \ {NumNodes} :
          \E s \in 1..Len(hist) : /\ hist[s].kind = "start"
                                    /\ hist[s].node = n
                                    /\ hist[s].result = BoolResult(TRUE)
    /\ \E i \in 1..Len(hist) :
          /\ hist[i].kind = "find_node" /\ hist[i].node = 1
          /\ hist[i].target = NodeIdOf(NumNodes)
          /\ hist[i].outcome = "ok"
          /\ hist[i].sent > 0

\* C6: store dispatches STORE to the k nearest of the peers its lookup
\* found, that is to min(k, number of peers found) peers.
C6_StoreToKNearest ==
    \A i \in Stores :
        hist[i].seen # <<>> =>
            /\ Len(hist[i].dispatched) = Min(K, Len(hist[i].seen))
            /\ hist[i].dispatched = Take(SortByDistance(hist[i].seen, hist[i].target), K)

\* A store whose lookup found more than alpha and fewer than k peers.
C6_Witness ==
    \E i \in Stores :
        /\ hist[i].outcome = "ok"
        /\ Len(hist[i].seen) > alpha
        /\ Len(hist[i].seen) < K
        /\ hist[i].dispatched # <<>>

\* The same call before and after a step.
SameCall(i) ==
    /\ i \in 1..Len(op'.tasks)
    /\ op.tasks[i].id # 0
    /\ op'.tasks[i].id = op.tasks[i].id

FutureOf(task) == <<task.fdone, task.ftype, task.fpayload>>

\* C7: a frame fulfils at most one outstanding request, the one registered
\* under the frame's id; every other outstanding request stays pending and
\* its future and result are untouched.
C7_ReplyCorrelation ==
    [][\A i \in 1..Len(op.tasks) :
          (SameCall(i) /\ FutureOf(op'.tasks[i]) # FutureOf(op.tasks[i])) =>
             /\ ~op.tasks[i].fdone
             /\ \E f \in network \ network' :
                   /\ f.id = op.tasks[i].id
                   /\ f.dst = op.node
                   /\ FutureOf(op'.tasks[i]) = <<TRUE, f.type, f.payload>>
                   /\ pending'[op.node] = pending[op.node] \ {f.id}
             /\ \A j \in 1..Len(op.tasks) : j # i => op'.tasks[j] = op.tasks[j]
      ]_vars

\* Two requests are waiting and the later one has its reply, the earlier
\* one not yet.
C7_Witness ==
    \E i, j \in 1..Len(op.tasks) :
        /\ i < j
        /\ op.tasks[i].st = "waiting" /\ ~op.tasks[i].fdone
        /\ op.tasks[i].id \in pending[op.node]
        /\ op.tasks[j].st = "waiting" /\ op.tasks[j].fdone
        /\ op.tasks[j].ftype \in {"FIND_NODE_RESP", "FIND_VALUE_RESP", "STORE_RESP"}

\* The ids of the requests of node n that have been registered and have not
\* returned.
InFlight(n) ==
    IF op.kind # "none" /\ op.node = n
    THEN {op.tasks[i].id : i \in {j \in 1..Len(op.tasks) :
                                     op.tasks[j].st \in {"registered", "waiting"}}}
    ELSE {}

C8_Table ==
    /\ \A n \in Nodes : pending[n] \subseteq InFlight(n)
    /\ \A i \in 1..Len(op.tasks) :
          /\ (op.tasks[i].st = "waiting" /\ ~op.tasks[i].fdone) =>
                op.tasks[i].id \in pending[op.node]
          /\ op.tasks[i].st = "returned" => op.tasks[i].id \notin pending[op.node]

C8_Step ==
    /\ \A f \in network' \ network :
          f.type \in {"PING", "FIND_NODE", "FIND_VALUE", "STORE"} => f.id \in pending[f.src]
    /\ \A i \in 1..Len(op.tasks) :
          (/\ SameCall(i)
           /\ op.tasks[i].st = "waiting" /\ ~op.tasks[i].fdone
           /\ op'.tasks[i].st = "returned")
          => op'.tasks[i].result =
                CASE op.tasks[i].type = "PING" -> BoolResult(FALSE)
                  [] op.tasks[i].type = "FIND_NODE" -> ListResult(<<>>)
                  [] op.tasks[i].type = "FIND_VALUE" -> NoneResult
                  [] op.tasks[i].type = "STORE" -> BoolResult(FALSE)

\* C8: an id is in the outstanding table before its datagram is sent and is
\* out of it once the call has returned, by reply, timeout or send error; a
\* call that timed out returns False, the empty list or None; so the table
\* holds only ids of requests in flight.
C8_PendingDiscipline == []C8_Table /\ [][C8_Step]_vars

\* One request has timed out and left the table while another is still
\* waiting in it.
C8_Witness ==
    \E i, j \in 1..Len(op.tasks) :
        /\ op.tasks[i].st = "returned" /\ ~op.tasks[i].fdone
        /\ op.tasks[i].result = TimeoutResult(op.tasks[i].type)
        /\ op.tasks[i].id \notin pending[op.node]
        /\ op.tasks[j].st = "waiting" /\ ~op.tasks[j].fdone
        /\ op.tasks[j].id \in pending[op.node]

\* C9: a stop with requests outstanding empties the outstanding table and
\* fails every awaiter at once (none keeps waiting for its timeout), and
\* the socket is closed.
C9_StopDrains ==
    [][\A n \in Nodes :
          (phase[n] = "running" /\ phase'[n] # "running") =>
             /\ phase'[n] = "stopped"
             /\ pending'[n] = {}
             /\ op.node = n =>
                   \A i \in 1..Len(op'.tasks) : op'.tasks[i].st # "waiting"
      ]_vars

\* Node 1 has stopped while a request of its operation was waiting for its
\* reply.
C9_Witness ==
    /\ phase[1] = "stopped"
    /\ op.node = 1
    /\ \E i \in 1..Len(op.tasks) : op.tasks[i].st = "waiting" /\ ~op.tasks[i].fdone

C10_Window ==
    \A n, m \in Nodes :
        (/\ rx[n][m].total > 0
         /\ now - rx[n][m].first < window_seconds
         /\ ~rx[n][m].global_hit)
        => rx[n][m].accepted = Min(rx[n][m].total, per_node_limit)

C10_Dropped ==
    \A n, m \in Nodes :
        (rx'[n][m].total = rx[n][m].total + 1 /\ rx'[n][m].accepted = rx[n][m].accepted)
        => /\ network' \subseteq network
           /\ buckets' = buckets
           /\ storage' = storage
           /\ pending' = pending

\* C10: of the frames one sender's node ID sends to a node within one window,
\* the global limit not reached, the first per_node_limit are handled and
\* the others dropped; a dropped frame gets no reply and leaves routing
\* table, store and outstanding table as they are.
C10_PerSenderLimit == []C10_Window /\ [][C10_Dropped]_vars

\* MaxPings PINGs of node 2 reached node 1 within one window: 20 handled,
\* the other 5 dropped.
C10_Witness ==
    /\ rx[1][2].total = MaxPings
    /\ rx[1][2].accepted = per_node_limit
    /\ rx[1][2].total - rx[1][2].accepted = 5
    /\ now - rx[1][2].first < window_seconds

RECURSIVE SumAccepted(_, _)
SumAccepted(row, m) == IF m = 0 THEN 0 ELSE row[m].accepted + SumAccepted(row, m - 1)

\* C11: the recorded messages inside the current window number at most
\* max_requests in all and at most per_node_limit for each sender ID; while
\* the first window lasts, the recorded messages are exactly the accepted
\* ones.
C11_RateLimitBound ==
    /\ CountRecent(limiter[1].history, now) <= max_requests
    /\ \A i \in 1..Len(limiter[1].nodes) :
          CountRecent(limiter[1].nodes[i].times, now) <= per_node_limit
    /\ now < window_seconds =>
          /\ CountRecent(limiter[1].history, now) = SumAccepted(rx[1], NumNodes)
          /\ \A m \in Callers \ {AnonCaller} :
                CountRecent(NodeTimes(limiter[1].nodes, CallerId(m)), now) = rx[1][m].accepted

\* Both limits are reached inside one window: a sender was refused at its
\* own limit and another call at the global limit.
C11_Witness ==
    /\ now < window_seconds
    /\ CountRecent(limiter[1].history, now) = max_requests
    /\ \E m \in Callers : /\ CountRecent(NodeTimes(limiter[1].nodes, CallerId(m)), now)
                               = per_node_limit
                          /\ rx[1][m].total > rx[1][m].accepted
    /\ \E m \in Callers : rx[1][m].global_hit

Nearer(table, target, p) ==
    {q \in PeerIds(get_all_nodes(table)) :
        compute_distance(q, target) < compute_distance(p, target)}

\* C13: find_closest(t, n) returns the min(n, number of peers known) peers
\* of the table nearest to t, in ascending order of distance.
C13_ClosestCorrectness ==
    op.kind = "find_closest" =>
        LET r == op.result.nodes
            all == PeerIds(get_all_nodes(buckets[1]))
        IN /\ Len(r) = Min(op.idx, Cardinality(all))
           /\ PeerIds(r) = {p \in all : Cardinality(Nearer(buckets[1], op.target, p)) < op.idx}
           /\ \A i \in 1..(Len(r) - 1) :
                 compute_distance(r[i].node_id, op.target)
                    < compute_distance(r[i + 1].node_id, op.target)

\* A find_closest on a table with peers in three buckets that asked for
\* fewer peers than the table holds.
C13_Witness ==
    /\ op.kind = "find_closest"
    /\ Cardinality({i \in DOMAIN buckets[1] : buckets[1][i] # <<>>}) >= 3
    /\ op.idx < Len(get_all_nodes(buckets[1]))
    /\ Len(op.result.nodes) = op.idx

\* The step is a call of add_node on the table of node 1.
IsAdd == op'.kind = "add" /\ now' = now

BucketOf(table, id) == table[get_bucket_index(TableSelf, id)]

\* C14: add(p) of a peer already in the table returns true, leaves p at the
\* tail of its bucket and removes no other peer, also when the bucket is
\* full.
C14_LruTouch ==
    [][(IsAdd /\ op'.target \in PeerIds(get_all_nodes(buckets[1]))) =>
          LET b == BucketOf(buckets'[1], op'.target)
          IN /\ op'.result = BoolResult(TRUE)
             /\ b # <<>> /\ b[Len(b)].node_id = op'.target
             /\ PeerIds(get_all_nodes(buckets'[1])) = PeerIds(get_all_nodes(buckets[1]))
      ]_vars

\* The last call was add(p) of a peer that is in the table, in a full bucket.
C14_Witness ==
    /\ op.kind = "add"
    /\ op.target \in PeerIds(BucketOf(buckets[1], op.target))
    /\ Len(BucketOf(buckets[1], op.target)) = TableK
    /\ op.result = BoolResult(FALSE)

\* The step is a call of add_node on a bucket of the table of node 1.
IsBucketAdd == op'.kind = "bucket_add" /\ now' = now

C15_Cap == \A i \in DOMAIN buckets[1] : Len(buckets[1][i]) <= TableK

C15_Step ==
    LET id == op'.target
        b == BucketOf(buckets[1], id)
        new == id # TableSelf /\ id \notin PeerIds(get_all_nodes(buckets[1]))
    IN /\ (IsAdd /\ new /\ Len(b) < TableK) =>
             /\ op'.result = BoolResult(TRUE)
             /\ id \in PeerIds(BucketOf(buckets'[1], id))
       /\ (IsBucketAdd /\ new /\ Len(b) < TableK) =>
             /\ op'.result = BoolResult(TRUE)
             /\ id \in PeerIds(BucketOf(buckets'[1], id))
       /\ (IsBucketAdd /\ new /\ Len(b) >= TableK) =>
             /\ op'.result = BoolResult(FALSE)
             /\ buckets' = buckets

\* C15: every bucket holds at most k peers, whatever was added (evictions
\* of stale peers and re-adds included) and removed; an add of a new peer
\* into a bucket with room returns true, and a bucket's add of a new peer
\* into a full bucket returns false.
C15_BucketCapacity == []C15_Cap /\ [][C15_Step]_vars

\* A full bucket refused a new peer, after a stale peer had been evicted
\* from the table for another one.
C15_Witness ==
    /\ op.kind = "bucket_add"
    /\ op.result = BoolResult(FALSE)
    /\ Len(BucketOf(buckets[1], op.target)) = TableK
    /\ op.target \notin PeerIds(get_all_nodes(buckets[1]))
    /\ now >= MaxTableTime

\* The number of entries of a table that carry the given id.
Occurrences(table, id) ==
    LET all == get_all_nodes(table)
    IN Cardinality({i \in 1..Len(all) : all[i].node_id = id})

\* C16: whatever was added (by add_node, by a bucket's add_node) and
\* removed, no node id occurs more than once in a routing table, neither
\* twice in one bucket nor in two buckets, and every entry lies in the
\* bucket of its id.
C16_Uniqueness ==
    \A n \in Nodes :
        /\ \A id \in PeerIds(get_all_nodes(buckets[n])) : Occurrences(buckets[n], id) = 1
        /\ \A i \in DOMAIN buckets[n] : \A id \in PeerIds(buckets[n][i]) :
               get_bucket_index(NodeIdOf(n), id) = i

\* An add of a peer returned true on a table that holds peers in several
\* buckets, two of them in the bucket of the added peer, after the clock
\* passed the stale timeout.
C16_Witness ==
    /\ op.kind = "add"
    /\ op.result = BoolResult(TRUE)
    /\ Occurrences(buckets[1], op.target) = 1
    /\ Len(BucketOf(buckets[1], op.target)) = TableK
    /\ Cardinality(PeerIds(get_all_nodes(buckets[1]))) >= 3
    /\ now > stale_timeout

\* The step is the handling of an inbound PING by node 1.
IsPingIn == op'.kind = "ping_in" /\ now' = now

C17_NotInOwnTable ==
    \A n \in Nodes : NodeIdOf(n) \notin PeerIds(get_all_nodes(buckets[n]))

C17_Step ==
    /\ (IsAdd /\ op'.target = TableSelf) =>
          /\ op'.result = BoolResult(FALSE)
          /\ buckets' = buckets
    /\ (IsPingIn /\ op'.target = TableSelf) => buckets' = buckets

\* C17: a node's own id is never in its routing table, whatever was added
\* directly or by an inbound PING (one whose payload names the receiver's
\* own id included); add_node of the own id returns false and changes
\* nothing.
C17_SelfExclusion == []C17_NotInOwnTable /\ [][C17_Step]_vars

\* A PING naming the receiver's own id was handled and answered while the
\* table held other peers.
C17_Witness ==
    /\ op.kind = "ping_in"
    /\ op.target = TableSelf
    /\ \E f \in network : f.type = "PONG" /\ f.dst = PingSource
    /\ Cardinality(PeerIds(get_all_nodes(buckets[1]))) >= 2

\* The peers of a bucket that are in bucket old and not in bucket new.
Removed(old, new) == SelectSeq(old, LAMBDA q : q.node_id \notin PeerIds(new))

C18_Step ==
    LET id == op'.target
        idx == get_bucket_index(TableSelf, id)
        b == buckets[1][idx]
        stale == StaleNodes(b, now)
        gone == Removed(b, buckets'[1][idx])
    IN (/\ IsAdd
        /\ id # TableSelf
        /\ id \notin PeerIds(get_all_nodes(buckets[1]))
        /\ Len(b) >= TableK) =>
           IF stale # <<>>
           THEN /\ op'.result = BoolResult(TRUE)
                /\ Len(gone) = 1
                /\ is_stale(gone[1], now)
                /\ \A j \in 1..Len(stale) : gone[1].last_seen <= stale[j].last_seen
                /\ buckets'[1][idx] =
                       Append(RemoveFirst(b, gone[1].node_id), Peer(id, 1, op'.ttl))
                /\ \A j \in DOMAIN buckets[1] : j # idx => buckets'[1][j] = buckets[1][j]
           ELSE /\ op'.result = BoolResult(FALSE)
                /\ buckets' = buckets

\* C18: add_node of a peer that is not in the table and whose bucket is
\* full: if a peer of the bucket is stale, exactly one peer is removed, it
\* is the stale peer seen least recently (none of the stale peers has an
\* older last_seen), the new peer is put at the tail and the call returns
\* true; if none is stale, the call returns false and the table is unchanged.
C18_FullBucketContention == [][C18_Step]_vars

\* A peer was added to a full bucket for an evicted one, and the bucket
\* still holds a stale peer seen at time 0.
C18_Witness ==
    LET b == BucketOf(buckets[1], op.target)
    IN /\ op.kind = "add"
       /\ op.result = BoolResult(TRUE)
       /\ Len(b) = TableK
       /\ b[Len(b)].node_id = op.target
       /\ now = MaxTableTime
       /\ b[1].last_seen = 0
       /\ b[Len(b)].last_seen = now

\* The bootstraps that completed with a successful PING.
Bootstrapped ==
    {j \in 1..Len(hist) : hist[j].kind = "start" /\ hist[j].result = BoolResult(TRUE)}

\* C19: after a bootstrap that pinged its endpoints with success, the
\* routing table holds every endpoint under the node ID its PONG carried,
\* and holds no peer with the all-zero stub ID.
C19_StubReplaced ==
    \A j \in Bootstrapped :
        LET n == hist[j].node
            ids == PeerIds(get_all_nodes(buckets[n]))
        IN /\ \A i \in 1..Len(bootstrap_nodes[n]) : NodeIdOf(bootstrap_nodes[n][i]) \in ids
           /\ StubId \notin ids

\* A bootstrap completed with a successful PING, and the PONG of its
\* endpoint, carrying the endpoint's node ID, was received.
C19_Witness ==
    \E j \in Bootstrapped :
        LET n == hist[j].node
        IN /\ bootstrap_nodes[n] # <<>>
           /\ hist[j].outcome = "ok"
           /\ rx[n][bootstrap_nodes[n][1]].accepted >= 1
           /\ get_all_nodes(buckets[n]) # <<>>

\* m is the median of the scores, the lower of the two middle ones when
\* their number is even.
IsLowerMedian(m, scores) ==
    LET n == Len(scores)
        below == Cardinality({i \in 1..n : scores[i] < m})
        upto == Cardinality({i \in 1..n : scores[i] <= m})
    IN /\ \E i \in 1..n : scores[i] = m
       /\ below < (n + 1) \div 2
       /\ (n + 1) \div 2 <= upto

\* C20: the consensus score of a key is the median of all the scores
\* observed for it, the local score and one per seed that answered with the
\* key, the lower middle one when their number is even.
C20_ConsensusIsMedian ==
    (op.kind = "aggregate" /\ op.pc = "done" /\ op.result.nodes # <<>>) =>
        IsLowerMedian(op.result.nodes[1], all_rankings(op.candidates, op.seen))

\* The local score 7 was aggregated with the scores 3, 8 and 9 received from
\* three seeds, and the consensus score is 8.
C20_Witness ==
    /\ op.kind = "aggregate"
    /\ op.pc = "done"
    /\ op.candidates = <<7>>
    /\ ReceivedScores(op.seen) = <<3, 8, 9>>
    /\ op.result.nodes = <<8>>

\* The metrics of a key with 60 requests recorded within 60 s, replication
\* count 12, first seen two hours before t.
Promoted(m, t) ==
    /\ m.request_count = 60
    /\ Len(m.request_timestamps) = 60
    /\ m.request_timestamps[60] - m.request_timestamps[1] <= 60
    /\ t - m.request_timestamps[1] <= 60
    /\ m.replication_count = 12
    /\ t - m.first_seen = 2 * Hour

\* C21: on a single node, a key with 60 find_value requests recorded within
\* 60 s, replication count 12 and first seen two hours ago has a score of at
\* least 7.0, and the replicator run on the ranked items (threshold 7.0)
\* issues store(key, value, 30 days) for it.
C21_PopularityPromotion ==
    /\ \A i \in 1..Len(metrics) :
          Promoted(metrics[i], now) => calculate_score(metrics[i], now) >= 7 * Scale
    /\ (op.kind = "replicate_popular_items" /\ op.ttl = 7 * Scale) =>
          \A i \in 1..Len(op.candidates) :
              (/\ Promoted(op.candidates[i].metrics, now)
               /\ op.candidates[i].key = ChainKey) =>
                 \E c \in 1..Len(op.dispatched) :
                     /\ op.dispatched[c].key = ChainKey
                     /\ op.dispatched[c].ttl = 30 * Day

\* The replicator ran with threshold 7.0 on the ranked items, among them a
\* key with 60 requests within 60 s, replication count 12, first seen two
\* hours ago, whose value the local store holds.
C21_Witness ==
    /\ op.kind = "replicate_popular_items"
    /\ op.ttl = 7 * Scale
    /\ \E i \in 1..Len(op.candidates) :
          /\ Promoted(op.candidates[i].metrics, now)
          /\ op.candidates[i].key = ChainKey
          /\ StorageGet(storage[1], ChainKey, now) # NoValue

\* The sum of the six weights.
WeightSum(w) ==
    w.request_rate + w.replication_factor + w.freshness + w.audience_size
        + w.social_engagements + w.seed_coverage

\* The metrics at hand: the collector's entries, and the metrics map the
\* last exchange returned.
MetricsAtHand ==
    {metrics[i] : i \in 1..Len(metrics)}
        \cup (IF op.kind = "exchange"
              THEN {op.candidates[i] : i \in 1..Len(op.candidates)} ELSE {})

IsRanking(l, among) ==
    /\ \A i, j \in 1..Len(l) : i < j => l[i].key # l[j].key /\ l[i].score >= l[j].score
    /\ \A i \in 1..Len(l) :
          \E m \in among : m.key = l[i].key /\ l[i].score = calculate_score(m, now)
    /\ \A m \in among :
          (\A i \in 1..Len(l) : l[i].key # m.key)
              => \A i \in 1..Len(l) : calculate_score(m, now) <= l[i].score

\* The collector's entries whose score is at least the threshold.
PopularEntries(threshold) ==
    {m \in {metrics[i] : i \in 1..Len(metrics)} : calculate_score(m, now) >= threshold}

\* C23: rank_items returns each key at most once, at most `limit` items, with
\* nonincreasing scores, and leaves out no item that scores above a returned
\* one; get_popular_items returns exactly the ranked items whose score is at
\* least the threshold, up to its limit.
C23_RankerOrder ==
    /\ op.kind = "rank_items" =>
          /\ IsRanking(op.result.nodes, {metrics[i] : i \in 1..Len(metrics)})
          /\ op.idx # NoLimit => Len(op.result.nodes) <= op.idx
          /\ op.idx = NoLimit => Len(op.result.nodes) = Len(metrics)
    /\ op.kind = "get_popular_items" =>
          /\ IsRanking(op.result.nodes, PopularEntries(op.ttl))
          /\ Len(op.result.nodes) = Min(op.idx, Cardinality(PopularEntries(op.ttl)))

\* A call with limit 0 on a collector that holds entries.
C23_Witness ==
    /\ op.kind = "rank_items"
    /\ op.idx = 0
    /\ Len(metrics) = 2

\* update_freshness() has just been applied to the object.
IsFreshUpdate == op'.kind = "update_freshness" /\ op' # op

\* C24: for a fixed first_seen / created_at the freshness_score that
\* update_freshness computes never rises as the age grows, across the 1 h and
\* 1 day breakpoints too; it stays within [0.1, 1.0], is above 0.5 at age
\* 1 h and below 0.5 at age 1 day.
C24_Step ==
    IsFreshUpdate =>
        \A i \in 1..Len(metrics) :
            /\ AgeOf(metrics'[i], now') >= 0
            /\ metrics'[i].freshness_score <= metrics[i].freshness_score
            /\ metrics'[i].freshness_score >= Scale \div 10
            /\ metrics'[i].freshness_score <= Scale
            /\ AgeOf(metrics'[i], now') = Hour => 2 * metrics'[i].freshness_score > Scale
            /\ AgeOf(metrics'[i], now') = Day => 2 * metrics'[i].freshness_score < Scale

IsCleanup == op'.kind = "cleanup_old_metrics" /\ ops_done' = ops_done + 1

\* C25: cleanup_old_metrics(30 days) removes exactly the keys whose
\* last_request is more than 30 days in the past; every other key's metrics
\* stay present and unchanged.
C25_Step ==
    IsCleanup =>
        /\ \A i \in 1..Len(metrics) :
              IF now - metrics[i].last_request > sweep_days * Day
              THEN metrics[i].key \notin MetricKeys(metrics')
              ELSE /\ metrics[i].key \in MetricKeys(metrics')
                   /\ get_metrics(metrics', metrics[i].key) = metrics[i]
        /\ MetricKeys(metrics') \subseteq MetricKeys(metrics)
        /\ Len(metrics') = Cardinality(MetricKeys(metrics'))

C25_MetricsSweep == [][C25_Step]_vars

\* A sweep dropped one key and kept the other, whose last request was
\* exactly 30 days before.
C25_Witness ==
    /\ op.kind = "cleanup_old_metrics"
    /\ Len(op.candidates) = 2
    /\ Len(metrics) = 1
    /\ now - metrics[1].last_request = sweep_days * Day

\* replicate_popular_items has just run.
IsReplicate == op'.kind = "replicate_popular_items" /\ ops_done' = ops_done + 1

\* The keys of the store calls of the run.
CalledKeys(calls) == {calls[i].key : i \in 1..Len(calls)}

\* C26: replicate_popular_items issues a store for an item exactly when its
\* score is at least the threshold, its replication_count is below 10 and the
\* local store holds its value; an item without a local value is skipped; no
\* store is issued for a key outside ranked_items.
C26_Step ==
    IsReplicate =>
        LET ranked_items == op'.candidates
            calls == op'.dispatched
            ranked_keys == {ranked_items[i].key : i \in 1..Len(ranked_items)}
        IN /\ \A i \in 1..Len(ranked_items) :
                  LET item == ranked_items[i]
                      held == StorageGet(storage[1], item.key, now)
                  IN /\ item.key \in CalledKeys(calls)
                          <=> /\ item.score >= op'.ttl
                              /\ item.metrics.replication_count < popular_replication_factor
                              /\ held # NoValue
                     /\ \A j \in 1..Len(calls) :
                            calls[j].key = item.key =>
                                calls[j].value = held /\ calls[j].ttl = popular_ttl
                     /\ item.score >= op'.ttl /\ held = NoValue =>
                            \E j \in 1..Len(op'.seen) :
                                op'.seen[j] = [key |-> item.key, ok |-> FALSE]
           /\ CalledKeys(calls) \subseteq ranked_keys
           /\ Len(calls) = Cardinality(CalledKeys(calls))
           /\ issued' = issued \o calls

C26_ReplicatorSelection == [][C26_Step]_vars

\* One run issued a store for a popular key held locally and skipped a
\* popular key without a local value.
C26_Witness ==
    /\ op.kind = "replicate_popular_items"
    /\ Len(op.dispatched) = 1
    /\ \E i \in 1..Len(op.seen) : ~op.seen[i].ok
    /\ Len(op.candidates) = 2

\* C27: an exception raised in a step of an iteration of the maintenance,
\* popularity or seed loop is caught inside the loop: no loop ever dies of
\* it, and while the node is running the loop goes on to its next iteration.
C27_LoopsSurviveErrors ==
    /\ [](\A l \in LoopNames : loops[l].pc # "dead")
    /\ \A l \in LoopNames :
          (loops[l].pc = "except")
              ~> (loops[l].pc = "body" \/ phase[1] # "running")

\* Each of the three loops has caught an exception and is in a later
\* iteration, the node running.
C27_Witness ==
    /\ phase[1] = "running"
    /\ \A l \in LoopNames : loops[l].caught /\ loops[l].pc = "body"

\* The step is _handle_message of the frame f.
Handled(f) ==
    /\ f \notin network'
    /\ rx'[f.dst][f.src].total = rx[f.dst][f.src].total + 1

\* C28: an inbound frame of a response type whose id is not in the table of
\* outstanding requests is dropped silently: no datagram is sent, and the
\* routing table, the store and the table of outstanding requests are as
\* before.
C28_Step ==
    \A f \in network :
        (f.type \in ResponseTypes /\ f.id \notin pending[f.dst] /\ Handled(f)) =>
            /\ network' = network \ {f}
            /\ buckets' = buckets
            /\ storage' = storage
            /\ pending' = pending

C28_StrayResponseDropped == [][C28_Step]_vars

\* Node 2 has taken a frame of the third party past the rate limiter while
\* its own PING, registered under id 1, is still outstanding.
C28_Witness ==
    /\ rx[2][StraySource].accepted >= 1
    /\ op.kind = "ping" /\ op.node = 2
    /\ pending[2] = {1}
    /\ \E p \in PeerIds(get_all_nodes(buckets[1])) : p = NodeIdOf(2)

\* C29: find_node with a network protocol attached returns at most alpha
\* peers, no peer twice, in ascending XOR distance to the target, and they are
\* the alpha closest to the target among all peers seen during the lookup.
C29_FindNodeResult ==
    \A i \in 1..Len(hist) :
        (hist[i].kind = "find_node" /\ attached[hist[i].node] /\ hist[i].outcome = "ok") =>
            LET l == hist[i].result.nodes
                d(p) == compute_distance(p.node_id, hist[i].target)
            IN /\ Len(l) <= alpha
               /\ Len(l) = Min(alpha, Cardinality(PeerIds(hist[i].seen)))
               /\ \A a, b \in 1..Len(l) :
                     a < b => l[a].node_id # l[b].node_id /\ d(l[a]) <= d(l[b])
               /\ PeerIds(l) \subseteq PeerIds(hist[i].seen)
               /\ \A j \in 1..Len(hist[i].seen) :
                     hist[i].seen[j].node_id \notin PeerIds(l) =>
                         \A a \in 1..Len(l) : d(l[a]) <= d(hist[i].seen[j])

\* A lookup saw all five peers over two rounds or more and returned alpha
\* of them, which are not the first alpha it saw.
C29_Witness ==
    \E i \in 1..Len(hist) :
        /\ hist[i].kind = "find_node" /\ hist[i].outcome = "ok"
        /\ Len(hist[i].seen) = NumNodes
        /\ hist[i].rounds >= 2
        /\ Len(hist[i].result.nodes) = alpha
        /\ hist[i].result.nodes # Take(hist[i].seen, alpha)

\* The requests handled so far that passed the rate limiter.
InboundLog == SelectSeq(hist, LAMBDA e : e.kind = "inbound" /\ e.accepted)

IsStoreIn(e) == e.frame.type = "STORE"

\* The STORE handler's part of C30: the put, exactly one STORE_RESP under the
\* request's id to the sender, success exactly when the put completed, an
\* error text when it raised, and the node still running.
C30_Handler ==
    \A i \in 1..Len(InboundLog) :
        LET e == InboundLog[i]
            f == e.frame
        IN IsStoreIn(e) =>
              /\ Cardinality(e.sent) = 1
              /\ \A r \in e.sent :
                    /\ r.type = "STORE_RESP" /\ r.id = f.id
                    /\ r.dst = f.src /\ r.src = f.dst
                    /\ r.payload.success <=> ~e.full
                    /\ e.full => r.payload.error # ""
              /\ e.after = IF e.full THEN e.before
                           ELSE StoragePut(e.before, f.payload.key, f.payload.value,
                                           f.payload.ttl, e.at)
              /\ phase[1] = "running"

\* The STOREs for the key of request k handled before it, in order.
StoresBefore(k) ==
    SelectSeq(SubSeq(InboundLog, 1, k - 1),
              LAMBDA e : IsStoreIn(e) /\ e.frame.payload.key = InboundLog[k].frame.payload.key)

\* The FIND_VALUE of request k was answered with the value.
Answered(k, value) ==
    \A r \in InboundLog[k].sent :
        r.type = "FIND_VALUE_RESP" /\ r.payload.found /\ r.payload.value = value

\* C30 as stated: the handler's part, and after two STOREs for a key are
\* handled a FIND_VALUE for it returns the value of the one handled last.
C30_LastHandledWins ==
    /\ C30_Handler
    /\ \A k \in 1..Len(InboundLog) :
          (InboundLog[k].frame.type = "FIND_VALUE" /\ Len(StoresBefore(k)) >= 2) =>
              /\ InboundLog[k].sent # {}
              /\ Answered(k, StoresBefore(k)[Len(StoresBefore(k))].frame.payload.value)

\* C30, amended: the handler's part, and after two STOREs for a key are
\* handled a FIND_VALUE for it returns the value of the last one whose put
\* completed, as long as that value's ttl has not run out.
C30_LastCompletedWins ==
    /\ C30_Handler
    /\ \A k \in 1..Len(InboundLog) :
          (InboundLog[k].frame.type = "FIND_VALUE" /\ Len(StoresBefore(k)) >= 2) =>
              LET done == SelectSeq(StoresBefore(k), LAMBDA e : ~e.full)
                  last == done[Len(done)]
              IN (done # <<>> /\ InboundLog[k].at < last.at + last.frame.payload.ttl) =>
                     /\ InboundLog[k].sent # {}
                     /\ Answered(k, last.frame.payload.value)

\* Two STOREs for one key with different values, the first put completed and
\* the second raised, then a FIND_VALUE for the key.
C30_Witness ==
    /\ Len(InboundLog) >= 3
    /\ LET a == InboundLog[1]
           b == InboundLog[2]
           c == InboundLog[3]
       IN /\ IsStoreIn(a) /\ IsStoreIn(b) /\ c.frame.type = "FIND_VALUE"
          /\ a.frame.payload.key = b.frame.payload.key
          /\ b.frame.payload.key = c.frame.payload.key
          /\ a.frame.payload.value # b.frame.payload.value
          /\ ~a.full /\ b.full
          /\ Answered(3, a.frame.payload.value)

\* The step is _handle_message of the frame f, which passed the rate
\* limiter.
Accepted(f) ==
    /\ Handled(f)
    /\ rx'[f.dst][f.src].accepted = rx[f.dst][f.src].accepted + 1

\* The entry of the peer with this ID in a routing table, as a set.
Entry(table, id) ==
    {get_all_nodes(table)[i] : i \in {j \in 1..Len(get_all_nodes(table)) :
                                         get_all_nodes(table)[j].node_id = id}}

\* C31: whenever a node handles an inbound message (PING, FIND_NODE,
\* FIND_VALUE, STORE or a reply) from a peer that is in its routing table,
\* that peer's last_seen is the current time afterwards.
C31_Step ==
    \A f \in network :
        (Accepted(f) /\ Entry(buckets[f.dst], f.node_id) # {}) =>
            /\ Entry(buckets'[f.dst], f.node_id) # {}
            /\ \A p \in Entry(buckets'[f.dst], f.node_id) : p.last_seen = now

C31_LastSeenRefresh == [][C31_Step]_vars

\* Node 1 has handled two frames of node 2 or more, the later ones after the
\* clock advanced, and node 2's entry in its table still carries the time of
\* the first.
C31_Witness ==
    /\ rx[1][2].accepted >= 2
    /\ now > 0
    /\ \E p \in Entry(buckets[1], NodeIdOf(2)) : p.last_seen < now
    /\ \E i \in 1..Len(hist) : hist[i].node = 2 /\ hist[i].kind # "start" /\ hist[i].sent >= 1

\* The call has returned because asyncio.wait_for timed out.
TimedOut(task) == task.st = "returned" /\ ~task.fdone /\ task.result.kind # "exc"

\* The call has returned what the peer answered, and it is the call's
\* success result.
Answered_ok(task) ==
    /\ task.st = "returned" /\ task.fdone
    /\ \/ task.type \in {"PING", "STORE"} /\ task.result = BoolResult(TRUE)
       \/ task.type = "FIND_NODE" /\ task.ftype = "FIND_NODE_RESP" /\ task.result.kind = "list"
       \/ task.type = "FIND_VALUE" /\ task.ftype = "FIND_VALUE_RESP"
              /\ task.result.kind \in {"bytes", "none"}

\* C32: every request to a peer that ends in a timeout (PING, FIND_NODE,
\* FIND_VALUE or STORE) increments that peer's failed_pings by one, and every
\* request answered successfully resets it to 0.  For a ping the peer is the
\* Node object the caller passed; for the requests of a lookup or a store it
\* is the peer's entry in the caller's routing table, read once the
\* operation has collected the calls.
C32_Step ==
    /\ \A i \in 1..Len(hist') :
          (hist'[i].kind = "ping" /\ hist'[i].outcome = "ok") =>
              hist'[i].peer.failed_pings = (IF hist'[i].result.flag THEN 0 ELSE 1)
    /\ (AllReturned(op) /\ op' # op) =>
          \A i \in 1..Len(op.tasks) :
              \A p \in Entry(buckets[op.node], op.tasks[i].peer.node_id) :
                  /\ (op.pc # "pg_wait" /\ TimedOut(op.tasks[i])) =>
                        \E q \in Entry(buckets'[op.node], p.node_id) :
                            q.failed_pings = p.failed_pings + 1
                  /\ (op.pc # "pg_wait" /\ Answered_ok(op.tasks[i])) =>
                        \E q \in Entry(buckets'[op.node], p.node_id) :
                            q.failed_pings = 0

C32_FailedPings == [][C32_Step]_vars

\* A ping has timed out and left its Node object with one failed ping, and a
\* later FIND_NODE, FIND_VALUE or STORE to a peer of the caller's routing
\* table has timed out as well.
C32_Witness ==
    /\ \E i \in 1..Len(hist) :
          /\ hist[i].kind = "ping" /\ hist[i].outcome = "ok"
          /\ ~hist[i].result.flag /\ hist[i].peer.failed_pings = 1
    /\ \E i \in 1..Len(op.tasks) :
          /\ op.tasks[i].type \in {"FIND_NODE", "FIND_VALUE", "STORE"}
          /\ TimedOut(op.tasks[i])
          /\ Entry(buckets[op.node], op.tasks[i].peer.node_id) # {}

\* The step is a merge of one received item: on the side that began the
\* exchange or on the side that handles an inbound POPULARITY_EXCHANGE.
IsMerge ==
    /\ ops_done' = ops_done + 1
    /\ op'.kind \in {"exchange", "process_received_items"}

\* C33: after a popularity exchange at a node, for every item received from
\* a neighbour: if its key already had local metrics, the node's
\* replication_count for it is max(previous local, received); otherwise the
\* node's metrics map now holds a metric for that key, seeded from the
\* received snapshot.
C33_Step ==
    IsMerge =>
        LET data == op'.seen[1]
        IN IF data.key \in MetricKeys(metrics)
           THEN get_metrics(metrics', data.key).replication_count =
                    Max(get_metrics(metrics, data.key).replication_count,
                        data.replication_count)
           ELSE /\ data.key \in MetricKeys(metrics')
                /\ get_metrics(metrics', data.key) = from_dict(data, now)

C33_ExchangeMerge == [][C33_Step]_vars

\* An exchange has returned a map with a metric built from a received item
\* whose key the collector does not hold, while the collector holds another
\* key.
C33_Witness ==
    /\ op.kind = "exchange"
    /\ metrics # <<>>
    /\ op.key \notin MetricKeys(metrics)
    /\ op.key \in MetricKeys(op.candidates)
    /\ get_metrics(op.candidates, op.key) = from_dict(op.seen[1], now)

\* The replication count the collector holds for a key.
ReplicationOf(coll, key) == get_metrics(coll, key).replication_count

\* C34: for every key, while its metrics entry exists, replication_count
\* never decreases under record_store, record_find_value, exchange merges and
\* the processing of inbound exchanges; after record_store(key, c) it is at
\* least c, and after a node-level store(key, ...) that succeeded it is at
\* least k.
C34_Step ==
    /\ \A key \in MetricKeys(metrics) \cap MetricKeys(metrics') :
          ReplicationOf(metrics', key) >= ReplicationOf(metrics, key)
    /\ (ops_done' = ops_done + 1 /\ op'.kind = "record_store") =>
          ReplicationOf(metrics', op'.key) >= op'.idx
    /\ (ops_done' = ops_done + 1 /\ op'.kind = "store" /\ op'.result = BoolResult(TRUE)) =>
          ReplicationOf(metrics', op'.key) >= K

C34_ReplicationMaxMerged == [][C34_Step]_vars

\* record_store has just recorded a count below the one the key already
\* had, and the other key has been through a node-level store that
\* succeeded.
C34_Witness ==
    /\ op.kind = "record_store" /\ op.idx < ReplicationOf(metrics, op.key)
    /\ ShortKey \in MetricKeys(metrics)
    /\ ReplicationOf(metrics, ShortKey) = K

\* The step is one ranking update.
IsRankingUpdate ==
    /\ ops_done' = ops_done + 1
    /\ op'.kind = "update_popularity_rankings"

\* How many times extend_ttl(key, extension) is among the calls.
ExtendCount(calls, key, extension) ==
    Cardinality({i \in 1..Len(calls) :
                    calls[i].key = key /\ calls[i].extension = extension})

\* C35: in one ranking update, for each ranked item, extend_ttl(key, 1.0) is
\* called iff its score is at least the popularity threshold,
\* extend_ttl(key, 0.5) iff its score is at least the active threshold and
\* below the popularity threshold, extend_ttl is called for no other key, and
\* the replicator then goes through exactly the items whose score is at
\* least the popularity threshold.
C35_Step ==
    IsRankingUpdate =>
        LET ranked == op'.candidates
            extended == op'.closest
            popular == {i \in 1..Len(ranked) : ranked[i].score >= op'.ttl}
            active == {i \in 1..Len(ranked) :
                          ranked[i].score >= op'.idx /\ ranked[i].score < op'.ttl}
        IN /\ ranked = rank_items(metrics, PopularLimit, now)
           /\ Len(ranked) <= PopularLimit
           /\ \A i \in 1..Len(ranked) :
                 /\ ExtendCount(extended, ranked[i].key, 100) =
                        (IF i \in popular THEN 1 ELSE 0)
                 /\ ExtendCount(extended, ranked[i].key, 50) =
                        (IF i \in active THEN 1 ELSE 0)
           /\ \A j \in 1..Len(extended) :
                 /\ extended[j].extension \in {50, 100}
                 /\ \E i \in popular \cup active : ranked[i].key = extended[j].key
           /\ {op'.seen[j].key : j \in 1..Len(op'.seen)} = {ranked[i].key : i \in popular}
           /\ Len(op'.seen) = Cardinality(popular)

C35_TtlExtensionPolicy == [][C35_Step]_vars

\* A ranking update has extended one key's TTL by 1.0 and handed it to the
\* replicator, and has extended the other key's TTL by 0.5.
C35_Witness ==
    /\ op.kind = "update_popularity_rankings"
    /\ Len(op.candidates) = 2
    /\ \E i, j \in 1..Len(op.closest) :
          /\ op.closest[i].extension = 100 /\ op.closest[j].extension = 50
          /\ op.closest[i].key # op.closest[j].key
    /\ Len(op.seen) = 1

\* Every metric is as update_all_freshness and cleanup_old_metrics leave it
\* at the current time.
FreshAndPruned ==
    metrics = cleanup_old_metrics(update_all_freshness(metrics, now), sweep_days, now)

\* C36: on every tick of the popularity loop of a running node, whether or
\* not the ranking update or the exchange is due in that tick and whether it
\* completes or raises, freshness is refreshed for all metrics and metrics
\* older than 30 days are pruned: when the tick's work is over and the loop
\* goes to sleep, the metrics are fresh and pruned.
C36_EveryTickRefreshes ==
    (phase[1] = "running"
        /\ loops["popularity"].pc \in {"sleep", "except", "except_sleep"}) =>
            FreshAndPruned

\* The popularity loop sleeps in its except clause, and the collector holds
\* a metric whose freshness is not that of its age, or one that is more than
\* 30 days old.
C36_Witness ==
    /\ phase[1] = "running"
    /\ loops["popularity"].pc = "except_sleep"
    /\ ~FreshAndPruned

\* C37: a find_node or find_value of the DHT engine terminates whatever mix of
\* replies, empty replies, lost datagrams and timeouts it meets, and within
\* one lookup no node ID is a query candidate in more than one round: the
\* candidates of a new round carry distinct IDs, none of them queried before,
\* and the candidates of the round before are all among the queried IDs,
\* which only grow.
SameLookup == InLookup /\ op'.no = op.no

C37_Step ==
    InLookup' =>
        LET before == IF SameLookup THEN op.rounds ELSE 0
        IN /\ SameLookup => op.queried \subseteq op'.queried
           /\ op'.rounds # before =>
                 /\ op'.rounds = before + 1
                 /\ PeerIds(op'.candidates) \cap op'.queried = {}
                 /\ Cardinality(PeerIds(op'.candidates)) = Len(op'.candidates)
                 /\ before > 0 => PeerIds(op.candidates) \subseteq op'.queried

C37_LookupTerminates == [][C37_Step]_vars /\ (InLookup ~> (op.kind = "none"))

\* C37 witness: a lookup in its second round whose closest list still holds
\* an ID queried in the first, and one of whose calls timed out.
C37_Witness ==
    /\ InLookup
    /\ op.rounds >= 2
    /\ PeerIds(op.closest) \cap op.queried # {}
    /\ \E i \in 1..Len(op.tasks) :
          /\ op.tasks[i].st = "returned"
          /\ op.tasks[i].result = TimeoutResult(op.tasks[i].type)

\* C38: the rate limiter is consulted for replies as for requests.  A frame
\* that carries the id of an outstanding request and arrives while the global
\* window or its sender's window is full is dropped before correlation: the
\* request's future stays unset, its slot stays in pending_requests, nothing
\* is sent and no table or store changes; the call then ends at its timeout,
\* which removes the slot and returns the timeout result (False for PING and
\* STORE, the empty list for FIND_NODE, None for FIND_VALUE).
WindowFull(f) == ~check_rate_limit(limiter[f.dst], f.node_id, now).ok

C38_Step ==
    /\ \A f \in network :
          (Handled(f) /\ f.id \in pending[f.dst] /\ WindowFull(f)) =>
              /\ pending' = pending
              /\ op' = op
              /\ network' = network \ {f}
              /\ buckets' = buckets
              /\ storage' = storage
    /\ \A i \in 1..Len(op.tasks) :
          (/\ op.tasks[i].st = "waiting" /\ ~op.tasks[i].fdone
           /\ op'.no = op.no /\ Len(op'.tasks) = Len(op.tasks)
           /\ op'.tasks[i].st = "returned") =>
              /\ op'.tasks[i].result = TimeoutResult(op.tasks[i].type)
              /\ op.tasks[i].id \in pending[op.node]
              /\ op.tasks[i].id \notin pending'[op.node]

C38_RepliesRateLimited == [][C38_Step]_vars

\* C38 witness: node 2's FIND_VALUE to node 1 has returned None at its
\* timeout, without its future ever set, after node 2's limiter dropped a
\* frame from node 1's address with the global window full.
C38_Witness ==
    /\ op.kind = "find_value" /\ op.node = 2 /\ op.pc = "fv_wait"
    /\ op.tasks[1].st = "returned" /\ ~op.tasks[1].fdone
    /\ op.tasks[1].result = NoneResult
    /\ rx[2][1].accepted < rx[2][1].total
    /\ rx[2][1].global_hit

\* C39: an accepted frame whose id is that of an outstanding request
\* completes the request with the frame's type and payload, whatever the type
\* and the sender's address are, and is not passed to the request handlers:
\* nothing is sent, no table or store changes, and the slot is taken out of
\* pending_requests.  A call whose future was completed with a type other
\* than the response type it expects returns its failure result (False for
\* PING and STORE, the empty list for FIND_NODE, None for FIND_VALUE), and a
\* frame that arrives once the slot is gone completes nothing.
C39_Step ==
    /\ \A f \in network :
          (Accepted(f) /\ f.id \in pending[f.dst]) =>
              /\ network' = network \ {f}
              /\ buckets' = buckets
              /\ storage' = storage
              /\ pending' = [pending EXCEPT ![f.dst] = @ \ {f.id}]
              /\ \A i \in 1..Len(op.tasks) :
                    (op.node = f.dst /\ op.tasks[i].id = f.id /\ ~op.tasks[i].fdone) =>
                        /\ op'.tasks[i].fdone
                        /\ op'.tasks[i].ftype = f.type
                        /\ op'.tasks[i].fpayload = f.payload
    /\ \A f \in network :
          (Accepted(f) /\ f.type \in ReplyTypes /\ f.id \notin pending[f.dst]) =>
              /\ network' = network \ {f}
              /\ op' = op
              /\ pending' = pending
    /\ \A i \in 1..Len(op.tasks) :
          (/\ op.tasks[i].st = "waiting" /\ op.tasks[i].fdone
           /\ op.tasks[i].ftype # ResponseOf(op.tasks[i].type)
           /\ op'.no = op.no /\ Len(op'.tasks) = Len(op.tasks)
           /\ op'.tasks[i].st = "returned") =>
              op'.tasks[i].result = TimeoutResult(op.tasks[i].type)

C39_IdAloneCorrelates == [][C39_Step]_vars

\* C39 witness: node 2's STORE call has returned False, its future completed
\* by the third party's STORE request of the same id; node 2's store holds
\* its own value, not the one of that request, and the STORE_RESP of the
\* peer is in flight with no slot left for it.
C39_Witness ==
    /\ op.kind = "store" /\ op.node = 2 /\ op.pc = "st_wait"
    /\ \E i \in 1..Len(op.tasks) :
          /\ op.tasks[i].st = "returned"
          /\ op.tasks[i].ftype = "STORE"
          /\ op.tasks[i].result = BoolResult(FALSE)
          /\ op.tasks[i].id \notin pending[2]
          /\ \E f \in network : f.type = "STORE_RESP" /\ f.id = op.tasks[i].id /\ f.dst = 2
    /\ StorageGet(storage[2], ShortKey, now) = "v1"

\* C40: during an iterative lookup or a store a node sends no FIND_NODE,
\* FIND_VALUE or STORE to a peer entry that carries the node's own ID, also
\* when a remote peer has listed that ID in its FIND_NODE_RESP.
SentToSelf(o) ==
    \E i \in 1..Len(o.tasks) :
        /\ o.tasks[i].type \in {"FIND_NODE", "FIND_VALUE", "STORE"}
        /\ o.tasks[i].st = "waiting"
        /\ o.tasks[i].peer.node_id = NodeIdOf(o.node)

C40_NeverQueriesSelf == op.kind \in {"find_node", "find_value", "store"} => ~SentToSelf(op)

\* C40 witness: a lookup or store in progress whose seen peers include an
\* entry with the node's own ID, learned from a peer's reply.
C40_Witness ==
    /\ op.kind \in {"find_node", "find_value", "store"}
    /\ NodeIdOf(op.node) \in PeerIds(op.seen)

====
